---- MODULE Spec2Model ----
(***************************************************************************)
(* Model of the ferrous-sysmet metrics store (lib/metrics/src/database.rs): *)
(* the sentinel-file lock protocol, load / persist of the CBOR data file,   *)
(* and the retention sweep.                                                 *)
(*                                                                          *)
(* Time stamps are integers counted in units of 30 minutes; durations of    *)
(* the lock protocol are integers counted in milliseconds.                  *)
(***************************************************************************)
EXTENDS Integers, Sequences, FiniteSets, TLC

(* ------------------------------------------------------------------ *)
(* Program constants                                                  *)
(* ------------------------------------------------------------------ *)
SLEEP_DURATION_BEFORE_RETRY_LOCK == 100
LOCKFILE_TIMEOUT == 5000
CRATE_VERSION == "0.2.0"
\* one hour, and chrono::Duration::days(1), in units of 30 minutes
UnitsPerHour == 2
UnitsPerDay == 24 * UnitsPerHour

(* ------------------------------------------------------------------ *)
(* Bounds of the model                                                *)
(* ------------------------------------------------------------------ *)
MaxSnapshots == 3
MaxTime == 5

Procs == {"p1", "p2"}
Solo == "p1"
\* payload of a collected snapshot (stands for all fields but `time`)
Readings == {"r1", "r2"}
\* the reading the host gives while the store is exercised
HostReading == "r1"
\* values of --cleanup-older
DaysValues == {0, 1}
\* how far the wall clock may move between two readings of it
TickValues == {1, 2}

(* ------------------------------------------------------------------ *)
(* Versions: text <-> semver::Version                                 *)
(* ------------------------------------------------------------------ *)
\* Version::from_str on the version texts the model uses; any other text
\* is a parse error
SemVerOf ==
    [s \in {"0.1.0", "0.2.0", "0.3.0", "0.3.0-rc"} |->
        CASE s = "0.1.0"    -> [major |-> 0, minor |-> 1, patch |-> 0, pre |-> ""]
          [] s = "0.2.0"    -> [major |-> 0, minor |-> 2, patch |-> 0, pre |-> ""]
          [] s = "0.3.0"    -> [major |-> 0, minor |-> 3, patch |-> 0, pre |-> ""]
          [] s = "0.3.0-rc" -> [major |-> 0, minor |-> 3, patch |-> 0, pre |-> "rc"]]

VersionParses(s) == s \in DOMAIN SemVerOf

\* semver precedence on major.minor.patch
TripleGreater(a, b) ==
    \/ a.major > b.major
    \/ a.major = b.major /\ a.minor > b.minor
    \/ a.major = b.major /\ a.minor = b.minor /\ a.patch > b.patch

TripleEqual(a, b) ==
    a.major = b.major /\ a.minor = b.minor /\ a.patch = b.patch

\* a release is greater than its own pre-releases (the model has one
\* pre-release tag, so two non-empty tags are equal)
SemVerGreater(a, b) ==
    \/ TripleGreater(a, b)
    \/ TripleEqual(a, b) /\ a.pre = "" /\ b.pre # ""

\* VersionReq::from_str(">" + req).matches(ver): ver is greater, and a
\* pre-release ver only matches a comparator that is a pre-release of the
\* same major.minor.patch
VersionReqGreaterMatches(req, ver) ==
    /\ SemVerGreater(ver, req)
    /\ (ver.pre = "" \/ (req.pre # "" /\ TripleEqual(ver, req)))

(* ------------------------------------------------------------------ *)
(* Database value and its CBOR encoding                               *)
(* ------------------------------------------------------------------ *)
Database_default == [version |-> CRATE_VERSION, snapshots |-> <<>>]

\* ciborium::ser::into_writer(&self): a map of two entries, the version
\* text, then the array of snapshots; one cell per encoded item
serialize(db) ==
    <<[map |-> 2], [version |-> db.version], [array |-> Len(db.snapshots)]>>
        \o [i \in 1..Len(db.snapshots) |-> [snap |-> db.snapshots[i]]]

IsCell(c, field) == DOMAIN c = {field}

\* ciborium::de::from_reader::<Database>: decodes one value from the start
\* of the input and leaves whatever follows it unread
CanDecode(f) ==
    /\ Len(f) >= 3
    /\ IsCell(f[1], "map")
    /\ IsCell(f[2], "version")
    /\ IsCell(f[3], "array")
    /\ Len(f) >= 3 + f[3].array
    /\ \A i \in 4..(3 + f[3].array) : IsCell(f[i], "snap")

\* deserialize that fills the Vec from the back
deserialize_reversed(f) ==
    [version |-> f[2].version,
     snapshots |-> [i \in 1..f[3].array |-> f[3 + (f[3].array + 1 - i)].snap]]

deserialize(f) ==
    [version |-> f[2].version,
     snapshots |-> [i \in 1..f[3].array |-> f[3 + i].snap]]

\* write(2) of `data` at offset `cursor` of a file holding `f`: bytes
\* before the cursor and after the written range are kept
WriteAt(f, cursor, data) ==
    LET head == [i \in 1..cursor |-> IF i <= Len(f) THEN f[i] ELSE [zero |-> 0]]
        tail == IF Len(f) > cursor + Len(data)
                THEN SubSeq(f, cursor + Len(data) + 1, Len(f))
                ELSE <<>>
    IN  head \o data \o tail

(* ------------------------------------------------------------------ *)
(* State                                                              *)
(* ------------------------------------------------------------------ *)
VARIABLES
    lockfile,   \* P.lock exists
    path_exists,\* the data file P exists
    datafile,   \* the cells of the data file P (none when P does not exist)
    now,        \* Utc::now()
    pc,         \* per process: where it is in its current Store operation
    op,         \* per process: the Store operation in progress
    elapsed,    \* per process: instant.elapsed() of Database::lock, in ms
    cursor,     \* per process: offset of its open File
    db,         \* per process: its in-memory Database
    result,     \* per process: outcome of its last finished operation
    last_sweep, \* history: the remove_older call made by the last step, if
                \* any; every other step clears it
    series,     \* the derived series returned by the last get_* call
    \* sysmet-http
    chart_data, \* the ChartData behind the RwLock
    settled,    \* history: chart_data as the last finished swap left it
    rwlock,     \* the RwLock: its writer and its readers
    task,       \* where the actualization task is
    home,       \* per request handler: where it is and what it has cloned
    ctrl_c,     \* where the Ctrl-C handler task is
    db_rx,      \* the oneshot channel to the actualization task
    server_rx,  \* the oneshot channel to the server
    server,     \* the HTTP server: serving or shut down
    updater,    \* another process that updates the data file
    \* sysmet-update
    run,        \* the arguments and the position of main
    \* sysmet-notify
    last_sent,  \* the contents of the last-sent file
    alert,      \* the arguments and the position of main
    mails       \* history: the start times of the runs whose mail was sent

\* the state of sysmet-http, of sysmet-update and of sysmet-notify
dashvars == <<chart_data, settled, rwlock, task, home, ctrl_c, db_rx,
              server_rx, server, updater>>
alertvars == <<last_sent, alert, mails>>
appvars == <<dashvars, run, alertvars>>

vars == <<lockfile, path_exists, datafile, now, pc, op, elapsed, cursor, db,
          result, last_sweep, series, appvars>>

\* no get_* call has been made
NoSeries == [name |-> "none", values |-> <<>>]

\* done: the last step was a remove_older(days) at time `at` on the
\* snapshots `before`; again: so was the step before it, with the same days
\* and time; origin: the snapshots before the first sweep of such a run
NoSweep == [done |-> FALSE, before |-> <<>>, days |-> 0, at |-> 0,
            again |-> FALSE, origin |-> <<>>]

\* the request handlers that run at the same time
Handlers == {"h1", "h2"}

\* ChartData::builder().last_updated_time(Instant::now())
\*     .metrics(Database::default()).build()
ChartData_default == [metrics |-> Database_default, last_updated_time |-> 0]

\* sysmet-http right after run_server has spawned its tasks
DashIdle ==
    /\ chart_data = ChartData_default
    /\ settled = ChartData_default
    /\ rwlock = [writer |-> FALSE, readers |-> {}]
    /\ task = "select_ready"
    /\ home = [h \in Handlers |-> [at |-> "idle", seen |-> <<>>]]
    /\ ctrl_c = "waiting"
    /\ db_rx = "empty"
    /\ server_rx = "empty"
    /\ server = "serving"
    /\ updater = "away"

\* sysmet-update before Cli::parse; an Option is a sequence of at most one
\* value
NoRun == [at |-> "parse", times |-> <<>>, left |-> 0, cleanup_older |-> <<>>,
          dry_run |-> FALSE, appended |-> 0, outcome |-> "none"]

\* the values a run of sysmet-notify compares
Metrics == {"cpu", "ram", "swap", "memory", "disk", "avg_load"}

\* sysmet-notify before Cli::parse; a cooldown is so many thousands of days
\* and so many units of time
NoAlert == [at |-> "parse", start |-> 0, dry_run |-> FALSE,
            cooldown |-> [kilodays |-> 0, units |-> 0],
            thresholds |-> [m \in Metrics |-> <<>>],
            snapshot |-> [m \in Metrics |-> 0],
            crossed |-> {}, outcome |-> "none"]

\* no program other than the store's client is running
AppIdle ==
    /\ DashIdle
    /\ run = NoRun
    /\ last_sent = <<>>
    /\ alert = NoAlert
    /\ mails = <<>>

TypeOK ==
    /\ lockfile \in BOOLEAN
    /\ path_exists \in BOOLEAN
    /\ (~path_exists => datafile = <<>>)
    /\ now \in 0..(MaxTime + UnitsPerDay)
    /\ pc \in [Procs -> {"idle", "lock_poll", "lock_create", "lock_open",
                         "load", "seek", "held", "write", "unlock",
                         "killed", "panicked"}]
    /\ op \in [Procs -> {"none", "from_file", "from_file_with_write",
                         "write_to_file", "write_and_close_file", "close_file"}]
    /\ elapsed \in [Procs -> 0..(LOCKFILE_TIMEOUT + SLEEP_DURATION_BEFORE_RETRY_LOCK)]
    /\ cursor \in [Procs -> Nat]

(* ------------------------------------------------------------------ *)
(* Returning from an operation                                        *)
(* ------------------------------------------------------------------ *)
\* `return Err(e)` / `Ok(..)`: the File (if any) is dropped, the caller
\* gets the outcome
Return(p, outcome) ==
    /\ pc' = [pc EXCEPT ![p] = "idle"]
    /\ UNCHANGED op
    /\ elapsed' = [elapsed EXCEPT ![p] = 0]
    /\ cursor' = [cursor EXCEPT ![p] = 0]
    /\ result' = [result EXCEPT ![p] = outcome]

Goto(p, label) ==
    /\ pc' = [pc EXCEPT ![p] = label]
    /\ UNCHANGED <<op, elapsed, result>>

(* ------------------------------------------------------------------ *)
(* The public entry points: the caller starts an operation            *)
(* ------------------------------------------------------------------ *)
Call(p, name) ==
    /\ pc[p] = "idle"
    /\ pc' = [pc EXCEPT ![p] = "lock_poll"]
    /\ op' = [op EXCEPT ![p] = name]
    \* let instant = Instant::now();
    /\ elapsed' = [elapsed EXCEPT ![p] = 0]
    /\ result' = [result EXCEPT ![p] = "pending"]
    /\ UNCHANGED <<lockfile, path_exists, datafile, now, cursor, db>>
    /\ last_sweep' = NoSweep
    /\ UNCHANGED series

from_file(p) == Call(p, "from_file") /\ UNCHANGED appvars

from_file_with_write(p) == Call(p, "from_file_with_write") /\ UNCHANGED appvars

write_to_file(p) == Call(p, "write_to_file") /\ UNCHANGED appvars

(* ------------------------------------------------------------------ *)
(* Database::lock                                                     *)
(* ------------------------------------------------------------------ *)
\* LockExpired with the comparison off by one
LockExpired_ge(e) == e >= LOCKFILE_TIMEOUT

\* instant.elapsed() > LOCKFILE_TIMEOUT
LockExpired(e) == e > LOCKFILE_TIMEOUT

\* sleep(SLEEP_DURATION_BEFORE_RETRY_LOCK) returns after the interval, or
\* later when the process is not scheduled at once; every reading past
\* the timeout behaves alike and is recorded as timeout + interval
AfterSleep(e) ==
    {IF e + SLEEP_DURATION_BEFORE_RETRY_LOCK > LOCKFILE_TIMEOUT
        THEN LOCKFILE_TIMEOUT + SLEEP_DURATION_BEFORE_RETRY_LOCK
        ELSE e + SLEEP_DURATION_BEFORE_RETRY_LOCK,
     LOCKFILE_TIMEOUT + SLEEP_DURATION_BEFORE_RETRY_LOCK}

\* lock_poll as a loop that tests the timeout before it looks at the
\* sentinel
lock_poll_timeout_first(p) ==
    /\ pc[p] = "lock_poll"
    /\ IF LockExpired(elapsed[p])
       THEN Return(p, "LockFileTimeout")
       ELSE IF lockfile
            THEN /\ \E e \in AfterSleep(elapsed[p]) :
                        elapsed' = [elapsed EXCEPT ![p] = e]
                 /\ UNCHANGED <<pc, op, cursor, result>>
            ELSE /\ Goto(p, "lock_create")
                 /\ UNCHANGED cursor
    /\ UNCHANGED <<lockfile, path_exists, datafile, now, db>>
    /\ last_sweep' = NoSweep
    /\ UNCHANGED <<series, appvars>>

\* lock_poll as a loop that starts a new waiting period when the timeout
\* is reached
lock_poll_retrying(p) ==
    /\ pc[p] = "lock_poll"
    /\ IF lockfile
       THEN /\ IF LockExpired(elapsed[p])
               THEN elapsed' = [elapsed EXCEPT ![p] = 0]
               ELSE \E e \in AfterSleep(elapsed[p]) :
                        elapsed' = [elapsed EXCEPT ![p] = e]
            /\ UNCHANGED <<pc, op, cursor, result>>
       ELSE /\ Goto(p, "lock_create")
            /\ UNCHANGED cursor
    /\ UNCHANGED <<lockfile, path_exists, datafile, now, db>>
    /\ last_sweep' = NoSweep
    /\ UNCHANGED <<series, appvars>>

\* lock_poll that removes the sentinel it has waited for in vain
lock_poll_breaking(p) ==
    /\ pc[p] = "lock_poll"
    /\ IF lockfile
       THEN IF LockExpired(elapsed[p])
            THEN Return(p, "LockFileTimeout") /\ lockfile' = FALSE
            ELSE /\ \E e \in AfterSleep(elapsed[p]) :
                        elapsed' = [elapsed EXCEPT ![p] = e]
                 /\ UNCHANGED <<pc, op, cursor, result, lockfile>>
       ELSE /\ Goto(p, "lock_create")
            /\ UNCHANGED <<cursor, lockfile>>
    /\ UNCHANGED <<path_exists, datafile, now, db>>
    /\ last_sweep' = NoSweep
    /\ UNCHANGED <<series, appvars>>

\* one turn of `while lockfile.exists() { .. }`
lock_poll(p) ==
    /\ pc[p] = "lock_poll"
    /\ IF lockfile
       THEN IF LockExpired(elapsed[p])
            THEN Return(p, "LockFileTimeout")
            ELSE /\ \E e \in AfterSleep(elapsed[p]) :
                        elapsed' = [elapsed EXCEPT ![p] = e]
                 /\ UNCHANGED <<pc, op, cursor, result>>
       ELSE /\ Goto(p, "lock_create")
            /\ UNCHANGED cursor
    /\ UNCHANGED <<lockfile, path_exists, datafile, now, db>>
    /\ last_sweep' = NoSweep
    /\ UNCHANGED <<series, appvars>>

\* File::create(&lockfile): creates the sentinel, or truncates the one
\* that is already there
lock_create(p) ==
    /\ pc[p] = "lock_create"
    /\ lockfile' = TRUE
    /\ Goto(p, "lock_open")
    /\ UNCHANGED <<path_exists, datafile, now, cursor, db>>
    /\ last_sweep' = NoSweep
    /\ UNCHANGED <<series, appvars>>

\* lock_open where from_file opens with the options of
\* from_file_with_write: read(true), write(true), create(true)
lock_open_creating(p) ==
    /\ pc[p] = "lock_open"
    /\ CASE op[p] \in {"from_file", "from_file_with_write"} ->
               /\ path_exists' = TRUE
               /\ UNCHANGED datafile
               /\ Goto(p, "load")
               /\ cursor' = [cursor EXCEPT ![p] = 0]
         [] op[p] = "write_to_file" ->
               /\ path_exists' = TRUE
               /\ datafile' = <<>>
               /\ Goto(p, "write")
               /\ cursor' = [cursor EXCEPT ![p] = 0]
    /\ UNCHANGED <<lockfile, now, db>>
    /\ last_sweep' = NoSweep
    /\ UNCHANGED <<series, appvars>>

\* options.open(path) with the OpenOptions of the calling operation
lock_open(p) ==
    /\ pc[p] = "lock_open"
    /\ CASE op[p] = "from_file" ->
               \* read(true)
               IF ~path_exists
               THEN Return(p, "FailedToOpenFile")
                    /\ UNCHANGED <<path_exists, datafile>>
               ELSE /\ Goto(p, "load")
                    /\ cursor' = [cursor EXCEPT ![p] = 0]
                    /\ UNCHANGED <<path_exists, datafile>>
         [] op[p] = "from_file_with_write" ->
               \* read(true), write(true), create(true)
               /\ path_exists' = TRUE
               /\ UNCHANGED datafile
               /\ Goto(p, "load")
               /\ cursor' = [cursor EXCEPT ![p] = 0]
         [] op[p] = "write_to_file" ->
               \* write(true), truncate(true), create(true)
               /\ path_exists' = TRUE
               /\ datafile' = <<>>
               /\ Goto(p, "write")
               /\ cursor' = [cursor EXCEPT ![p] = 0]
    /\ UNCHANGED <<lockfile, now, db>>
    /\ last_sweep' = NoSweep
    /\ UNCHANGED <<series, appvars>>

(* ------------------------------------------------------------------ *)
(* Database::unlock                                                   *)
(* ------------------------------------------------------------------ *)
\* unlock that hands the path of the data file to remove_file
unlock_removing_path(p) ==
    /\ pc[p] = "unlock"
    /\ IF path_exists
       THEN path_exists' = FALSE /\ datafile' = <<>> /\ Return(p, "Ok")
       ELSE UNCHANGED <<path_exists, datafile>> /\ Return(p, "Ok")
    /\ UNCHANGED <<lockfile, now, db>>
    /\ last_sweep' = NoSweep
    /\ UNCHANGED <<series, appvars>>

\* if path.exists() { remove_file(lockfile)? }; then the operation
\* returns Ok
unlock(p) ==
    /\ pc[p] = "unlock"
    /\ IF path_exists
       THEN IF lockfile
            THEN lockfile' = FALSE /\ Return(p, "Ok")
            ELSE UNCHANGED lockfile /\ Return(p, "FailedToRemoveFile")
       ELSE UNCHANGED lockfile /\ Return(p, "Ok")
    /\ UNCHANGED <<path_exists, datafile, now, db>>
    /\ last_sweep' = NoSweep
    /\ UNCHANGED <<series, appvars>>

(* ------------------------------------------------------------------ *)
(* Database::load_database                                            *)
(* ------------------------------------------------------------------ *)
\* the version check at the end of load_database
reconcile_version(d) ==
    IF VersionReqGreaterMatches(SemVerOf[CRATE_VERSION], SemVerOf[d.version])
    THEN [d EXCEPT !.version = CRATE_VERSION]
    ELSE d

\* load_outcome without the test of the file size: an empty file goes to
\* the decoder
load_outcome_decoding_empty(f) ==
    IF ~CanDecode(f) THEN "CborDeserialize"
    ELSE IF ~VersionParses(deserialize(f).version) THEN "SemVer"
    ELSE "Ok"

\* outcome of load_database on a file holding `f`
load_outcome(f) ==
    IF Len(f) = 0 THEN "Ok"
    ELSE IF ~CanDecode(f) THEN "CborDeserialize"
    ELSE IF ~VersionParses(deserialize(f).version) THEN "SemVer"
    ELSE "Ok"

load_value(f) ==
    reconcile_version(IF Len(f) = 0 THEN Database_default ELSE deserialize(f))

\* load_database that answers a file it cannot decode with the default
\* store
load_database_salvaging(p) ==
    /\ pc[p] = "load"
    /\ IF load_outcome(datafile) \in {"Ok", "CborDeserialize"}
       THEN /\ db' = [db EXCEPT ![p] =
                        IF load_outcome(datafile) = "Ok"
                        THEN load_value(datafile) ELSE Database_default]
            /\ cursor' = [cursor EXCEPT ![p] = Len(datafile)]
            /\ Goto(p, IF op[p] = "from_file" THEN "unlock" ELSE "seek")
       ELSE /\ Return(p, load_outcome(datafile))
            /\ UNCHANGED db
    /\ UNCHANGED <<lockfile, path_exists, datafile, now>>
    /\ last_sweep' = NoSweep
    /\ UNCHANGED <<series, appvars>>

\* load_database that stores the reconciled value back into the file it
\* was read from
load_database_rewriting(p) ==
    /\ pc[p] = "load"
    /\ IF load_outcome(datafile) = "Ok"
       THEN /\ db' = [db EXCEPT ![p] = load_value(datafile)]
            /\ datafile' = IF Len(datafile) > 0 /\ load_value(datafile) # deserialize(datafile)
                           THEN WriteAt(datafile, 0, serialize(load_value(datafile)))
                           ELSE datafile
            /\ cursor' = [cursor EXCEPT ![p] = Len(datafile)]
            /\ Goto(p, IF op[p] = "from_file" THEN "unlock" ELSE "seek")
       ELSE /\ Return(p, load_outcome(datafile))
            /\ UNCHANGED <<db, datafile>>
    /\ UNCHANGED <<lockfile, path_exists, now>>
    /\ last_sweep' = NoSweep
    /\ UNCHANGED <<series, appvars>>

\* let result = Self::load_database(&file)?;
load_database(p) ==
    /\ pc[p] = "load"
    /\ IF load_outcome(datafile) = "Ok"
       THEN /\ db' = [db EXCEPT ![p] = load_value(datafile)]
            \* the reader has consumed the file
            /\ cursor' = [cursor EXCEPT ![p] = Len(datafile)]
            /\ Goto(p, IF op[p] = "from_file" THEN "unlock" ELSE "seek")
       ELSE /\ Return(p, load_outcome(datafile))
            /\ UNCHANGED db
    /\ UNCHANGED <<lockfile, path_exists, datafile, now>>
    /\ last_sweep' = NoSweep
    /\ UNCHANGED <<series, appvars>>

\* from_file_with_write without the seek: the File stays where the reader
\* left it
seek_start_missing(p) ==
    /\ pc[p] = "seek"
    /\ pc' = [pc EXCEPT ![p] = "held"]
    /\ result' = [result EXCEPT ![p] = "Ok"]
    /\ UNCHANGED <<lockfile, path_exists, datafile, now, op, elapsed, cursor, db>>
    /\ last_sweep' = NoSweep
    /\ UNCHANGED <<series, appvars>>

\* file.seek(SeekFrom::Start(0)); Ok((result, file, path))
seek_start(p) ==
    /\ pc[p] = "seek"
    /\ cursor' = [cursor EXCEPT ![p] = 0]
    /\ pc' = [pc EXCEPT ![p] = "held"]
    /\ result' = [result EXCEPT ![p] = "Ok"]
    /\ UNCHANGED <<lockfile, path_exists, datafile, now, op, elapsed, db>>
    /\ last_sweep' = NoSweep
    /\ UNCHANGED <<series, appvars>>

(* ------------------------------------------------------------------ *)
(* Persist                                                            *)
(* ------------------------------------------------------------------ *)
\* the caller of from_file_with_write persists through the open File
write_and_close_file(p) ==
    /\ pc[p] = "held"
    /\ pc' = [pc EXCEPT ![p] = "write"]
    /\ op' = [op EXCEPT ![p] = "write_and_close_file"]
    /\ result' = [result EXCEPT ![p] = "pending"]
    /\ UNCHANGED <<lockfile, path_exists, datafile, now, elapsed, cursor, db>>
    /\ last_sweep' = NoSweep
    /\ UNCHANGED <<series, appvars>>

\* close_file that writes the store like write_and_close_file does
close_file_persisting(p) ==
    /\ pc[p] = "held"
    /\ pc' = [pc EXCEPT ![p] = "write"]
    /\ op' = [op EXCEPT ![p] = "close_file"]
    /\ result' = [result EXCEPT ![p] = "pending"]
    /\ UNCHANGED <<lockfile, path_exists, datafile, now, elapsed, cursor, db>>
    /\ last_sweep' = NoSweep
    /\ UNCHANGED <<series, appvars>>

\* the caller of from_file_with_write gives up without persisting
close_file(p) ==
    /\ pc[p] = "held"
    /\ pc' = [pc EXCEPT ![p] = "unlock"]
    /\ op' = [op EXCEPT ![p] = "close_file"]
    /\ result' = [result EXCEPT ![p] = "pending"]
    /\ UNCHANGED <<lockfile, path_exists, datafile, now, elapsed, cursor, db>>
    /\ last_sweep' = NoSweep
    /\ UNCHANGED <<series, appvars>>

\* write_self_to_file: into_writer + flush through the File at its
\* current offset
write_self_to_file(p) ==
    /\ pc[p] = "write"
    /\ datafile' = WriteAt(datafile, cursor[p], serialize(db[p]))
    /\ cursor' = [cursor EXCEPT ![p] = cursor[p] + Len(serialize(db[p]))]
    /\ Goto(p, "unlock")
    /\ UNCHANGED <<lockfile, path_exists, now, db>>
    /\ last_sweep' = NoSweep
    /\ UNCHANGED <<series, appvars>>

\* write_self_to_file when the disk refuses the write: the `?` returns
\* FailedToWriteFile (or CborSerialize) to the caller before unlock
write_fails(p) ==
    /\ pc[p] = "write"
    /\ Return(p, "FailedToWriteFile")
    /\ UNCHANGED <<lockfile, path_exists, datafile, now, db>>
    /\ last_sweep' = NoSweep
    /\ UNCHANGED <<series, appvars>>

(* ------------------------------------------------------------------ *)
(* In-memory operations                                               *)
(* ------------------------------------------------------------------ *)
\* SnapShot::new: a reading of the host stamped with Utc::now()
SnapShot_new(reading, t) == [time |-> t, reading |-> reading]

\* take_snapshot that inserts the new snapshot at the front
take_snapshot_front(p) ==
    /\ pc[p] = "held"
    /\ Len(db[p].snapshots) < MaxSnapshots
    /\ db' = [db EXCEPT ![p].snapshots = <<SnapShot_new(HostReading, now)>> \o @]
    /\ UNCHANGED <<lockfile, path_exists, datafile, now, pc, op, elapsed, cursor, result>>
    /\ last_sweep' = NoSweep
    /\ UNCHANGED <<series, appvars>>

\* self.snapshots.push(SnapShot::new(..)?)
take_snapshot(p) ==
    /\ pc[p] = "held"
    /\ Len(db[p].snapshots) < MaxSnapshots
    /\ db' = [db EXCEPT ![p].snapshots = Append(@, SnapShot_new(HostReading, now))]
    /\ UNCHANGED <<lockfile, path_exists, datafile, now, pc, op, elapsed, cursor, result>>
    /\ last_sweep' = NoSweep
    /\ UNCHANGED <<series, appvars>>

(* SnapShot::new on a host given explicitly: the interfaces it has and the *)
(* psutil read that fails on it, if any.                                   *)
IfNames == {"lo", "eth0"}

\* --ignored-networks: nothing, one interface of the host, a name the host
\* does not have, every interface of the host
IgnoreSets == {{}, {"lo"}, {"wg0"}, {"lo", "eth0"}}

\* the reads of SnapShot::new in the order of the struct literal
Reads ==
    <<"cpus", "memory", "swap", "networks", "disks_io", "disks_memory",
      "temps", "load_avgs">>

\* services/metrics: the same without partitions_physical / disk_usage
ReadsServices ==
    <<"cpus", "memory", "swap", "networks", "disks", "temps", "load_avgs">>

\* a host where every read succeeds, and hosts where the first read, a
\* read that only lib/metrics makes, or a read in the middle fails
Hosts ==
    [nics : SUBSET IfNames,
     failing : {"none", "cpus", "disks_memory", "temps"}]

\* the value of net_io_counters_pernic() under an interface name
NetIoCounters(name) ==
    CASE name = "lo"   -> [bytes_recv |-> 1048576, bytes_sent |-> 1024]
      [] name = "eth0" -> [bytes_recv |-> 2097152, bytes_sent |-> 4096]

\* the orders in which a HashMap may hand out the entries of `names`
Orders(names) ==
    {f \in [1..Cardinality(names) -> names] :
        \A i, j \in DOMAIN f : f[i] = f[j] => i = j}

\* lib/metrics: filter_map keeps v unless networks_to_ignore.contains(k)
networks_kept(nics, networks_to_ignore) ==
    {k \in nics : ~(k \in networks_to_ignore)}

\* services/metrics: filter_map keeps v if networks_to_ignore.contains(k)
networks_kept_services(nics, networks_to_ignore) ==
    {k \in nics : k \in networks_to_ignore}

\* push that also takes a snapshot whose sensors could not be read
push_new_sensorless(p, failed, kept) ==
    /\ pc[p] = "held"
    /\ IF failed # "none" /\ failed # "temps"
       THEN /\ result' = [result EXCEPT ![p] = "Psutil"]
            /\ UNCHANGED db
       ELSE /\ Len(db[p].snapshots) < MaxSnapshots
            /\ \E order \in Orders(kept) :
                  db' = [db EXCEPT ![p].snapshots =
                           Append(@, SnapShot_new(
                               [networks |-> [i \in DOMAIN order |->
                                                NetIoCounters(order[i])]],
                               now))]
            /\ result' = [result EXCEPT ![p] = "Ok"]
    /\ UNCHANGED <<lockfile, path_exists, datafile, now, pc, op, elapsed, cursor>>
    /\ last_sweep' = NoSweep
    /\ UNCHANGED <<series, appvars>>

\* self.snapshots.push(SnapShot::new(networks_to_ignore)?): the first read
\* that fails returns Error::Psutil through `?`, before the push
push_new(p, failed, kept) ==
    /\ pc[p] = "held"
    /\ IF failed # "none"
       THEN /\ result' = [result EXCEPT ![p] = "Psutil"]
            /\ UNCHANGED db
       ELSE /\ Len(db[p].snapshots) < MaxSnapshots
            /\ \E order \in Orders(kept) :
                  db' = [db EXCEPT ![p].snapshots =
                           Append(@, SnapShot_new(
                               [networks |-> [i \in DOMAIN order |->
                                                NetIoCounters(order[i])]],
                               now))]
            /\ result' = [result EXCEPT ![p] = "Ok"]
    /\ UNCHANGED <<lockfile, path_exists, datafile, now, pc, op, elapsed, cursor>>
    /\ last_sweep' = NoSweep
    /\ UNCHANGED <<series, appvars>>

\* does the read that fails on the host belong to this SnapShot::new
FailedRead(host, reads) ==
    IF host.failing \in {reads[i] : i \in DOMAIN reads}
    THEN host.failing ELSE "none"

\* lib/metrics Database::take_snapshot on `host`
take_snapshot_host(p, host, networks_to_ignore) ==
    push_new(p, FailedRead(host, Reads),
             networks_kept(host.nics, networks_to_ignore))

\* services/metrics Database::take_snapshot on `host`
take_snapshot_services(p, host, networks_to_ignore) ==
    push_new(p, FailedRead(host, ReadsServices),
             networks_kept_services(host.nics, networks_to_ignore))

\* oldest_date that also spares the day in progress
oldest_date_inclusive(t, older_than_days) ==
    t - (older_than_days + 1) * UnitsPerDay

\* Utc::now().checked_sub_signed(chrono::Duration::days(older_than_days))
oldest_date(t, older_than_days) == t - older_than_days * UnitsPerDay

\* keeps with the comparison turned round
keeps_inverted(snap, oldest) == snap.time < oldest

\* the closure of retain
keeps(snap, oldest) == snap.time > oldest

\* retain as a loop that removes in place and then steps over the element
\* that moved into the freed slot
RECURSIVE retain_skipping(_, _)
retain_skipping(snaps, oldest) ==
    IF snaps = <<>> THEN <<>>
    ELSE IF keeps(Head(snaps), oldest)
         THEN <<Head(snaps)>> \o retain_skipping(Tail(snaps), oldest)
         ELSE IF Tail(snaps) = <<>> THEN <<>>
              ELSE <<Head(Tail(snaps))>> \o retain_skipping(Tail(Tail(snaps)), oldest)

\* Vec::retain: the elements the closure accepts, in their order
RECURSIVE retain(_, _)
retain(snaps, oldest) ==
    IF snaps = <<>> THEN <<>>
    ELSE IF keeps(Head(snaps), oldest)
         THEN <<Head(snaps)>> \o retain(Tail(snaps), oldest)
         ELSE retain(Tail(snaps), oldest)

remove_older(p, older_than_days) ==
    /\ pc[p] = "held"
    /\ db' = [db EXCEPT ![p].snapshots =
                  retain(@, oldest_date(now, older_than_days))]
    /\ LET again == /\ last_sweep.done
                     /\ last_sweep.days = older_than_days
                     /\ last_sweep.at = now
       IN  last_sweep' = [done |-> TRUE, before |-> db[p].snapshots,
                          days |-> older_than_days, at |-> now,
                          again |-> again,
                          origin |-> IF again THEN last_sweep.origin
                                              ELSE db[p].snapshots]
    /\ UNCHANGED <<lockfile, path_exists, datafile, now, pc, op, elapsed, cursor, result>>
    /\ UNCHANGED <<series, appvars>>

(* remove_older on arguments far from zero. older_than_days is an i64 and   *)
(* comes unchecked from the command line; the limits it can cross are those *)
(* of chrono: a Duration holds at most i64::MAX milliseconds, a DateTime    *)
(* lies between the years -262144 and 262143. They are counted here in      *)
(* units of 1000 days, which keeps them within the integers of the checker. *)
\* i64::MAX ms / 86_400_000 ms per day / 1000
DURATION_MAX_KILODAYS == 106751991

\* 1 January -262144 and 31 December 262143, from 1 January 1970
DATE_MIN_KILODAYS == -96465

DATE_MAX_KILODAYS == 95026

\* Utc::now(): the years 2020-2030 are 18 to 22 thousand days after 1970
NowKiloDays == 20

\* arguments on either side of each limit, in thousands of days
FarDays ==
    {-(DURATION_MAX_KILODAYS + 1), -DURATION_MAX_KILODAYS,
     NowKiloDays - DATE_MAX_KILODAYS - 1, NowKiloDays - DATE_MAX_KILODAYS,
     -1, 1,
     NowKiloDays - DATE_MIN_KILODAYS, NowKiloDays - DATE_MIN_KILODAYS + 1,
     DURATION_MAX_KILODAYS, DURATION_MAX_KILODAYS + 1}

\* chrono::Duration::days(n) panics ("Duration::days out of bounds") when
\* n days do not fit a Duration
Duration_days_panics(kilodays) ==
    kilodays > DURATION_MAX_KILODAYS \/ kilodays < -DURATION_MAX_KILODAYS

\* DateTime::checked_sub_signed(d) is Some(date) when the date exists
checked_sub_signed_is_some(t, kilodays) ==
    /\ t - kilodays >= DATE_MIN_KILODAYS
    /\ t - kilodays <= DATE_MAX_KILODAYS

\* remove_older(1000 * kilodays): the stored snapshots were all taken
\* within the same thousand days as Utc::now()
remove_older_far(p, kilodays) ==
    /\ pc[p] = "held"
    /\ IF Duration_days_panics(kilodays)
       THEN \* the thread unwinds out of remove_older and the process ends
            /\ pc' = [pc EXCEPT ![p] = "panicked"]
            /\ UNCHANGED <<db, result>>
       ELSE IF ~checked_sub_signed_is_some(NowKiloDays, kilodays)
            THEN \* .ok_or(Error::OldestDateOverflow)?
                 /\ result' = [result EXCEPT ![p] = "OldestDateOverflow"]
                 /\ UNCHANGED <<db, pc>>
            ELSE /\ db' = [db EXCEPT ![p].snapshots =
                              SelectSeq(@, LAMBDA snap :
                                  keeps([snap EXCEPT !.time = NowKiloDays],
                                        NowKiloDays - kilodays))]
                 /\ result' = [result EXCEPT ![p] = "Ok"]
                 /\ UNCHANGED pc
    /\ UNCHANGED <<lockfile, path_exists, datafile, now, op, elapsed, cursor>>
    /\ last_sweep' = NoSweep
    /\ UNCHANGED <<series, appvars>>

(* ------------------------------------------------------------------ *)
(* f64 values: exact fractions n/d; d = 0 stands for NaN (n = 0) and   *)
(* for infinity (n # 0), the results IEEE 754 gives a division by 0.0  *)
(* ------------------------------------------------------------------ *)
RECURSIVE GCD(_, _)
GCD(a, b) == IF b = 0 THEN a ELSE GCD(b, a % b)

f64_norm(x) ==
    IF x.d = 0
    THEN [n |-> IF x.n > 0 THEN 1 ELSE IF x.n < 0 THEN -1 ELSE 0, d |-> 0]
    ELSE LET g == GCD(IF x.n < 0 THEN -x.n ELSE x.n, x.d)
         IN  [n |-> x.n \div g, d |-> x.d \div g]

\* `n as f64`
f64(n) == [n |-> n, d |-> 1]

f64_add(a, b) == f64_norm([n |-> a.n * b.d + b.n * a.d, d |-> a.d * b.d])

f64_mul(a, b) == f64_norm([n |-> a.n * b.n, d |-> a.d * b.d])

\* a / b for b >= 0
f64_div(a, b) == f64_norm([n |-> a.n * b.d, d |-> a.d * b.n])

\* Iterator::fold(0.0, |sum, x| sum + x)
RECURSIVE f64_sum(_)
f64_sum(xs) ==
    IF xs = <<>> THEN f64(0) ELSE f64_add(f64(Head(xs)), f64_sum(Tail(xs)))

(* ------------------------------------------------------------------ *)
(* The derived series of Database; a snapshot's reading holds here the *)
(* fields of SnapShot the series are computed from                     *)
(* ------------------------------------------------------------------ *)
\* SnapShot::get_cpu_count
get_cpu_count(snap) == Len(snap.reading.cpus)

\* get_cpu_time with the two sums in the other order
get_cpu_time_swapped(snap) ==
    <<f64_sum([i \in DOMAIN snap.reading.cpus |-> snap.reading.cpus[i].total]),
      f64_sum([i \in DOMAIN snap.reading.cpus |-> snap.reading.cpus[i].busy])>>

\* SnapShot::get_cpu_time: (busy, total) summed over the cores
get_cpu_time(snap) ==
    <<f64_sum([i \in DOMAIN snap.reading.cpus |-> snap.reading.cpus[i].busy]),
      f64_sum([i \in DOMAIN snap.reading.cpus |-> snap.reading.cpus[i].total])>>

\* SnapShot::get_network_usage: (bytes_recv, bytes_sent) summed
get_network_usage(snap) ==
    <<f64_sum([i \in DOMAIN snap.reading.networks |->
                  snap.reading.networks[i].bytes_recv]),
      f64_sum([i \in DOMAIN snap.reading.networks |->
                  snap.reading.networks[i].bytes_sent])>>

\* SnapShot::get_disk_speed_usage: (read_bytes, write_bytes) summed as u64
RECURSIVE u64_sum(_)
u64_sum(xs) == IF xs = <<>> THEN 0 ELSE Head(xs) + u64_sum(Tail(xs))

get_disk_speed_usage(snap) ==
    <<u64_sum([i \in DOMAIN snap.reading.disks_io |->
                  snap.reading.disks_io[i].read_bytes]),
      u64_sum([i \in DOMAIN snap.reading.disks_io |->
                  snap.reading.disks_io[i].write_bytes])>>

\* SnapShot::get_disks_size_usage: the used-percent of each partition
get_disks_size_usage(snap) ==
    [i \in DOMAIN snap.reading.disks_memory |->
        snap.reading.disks_memory[i].percent]

\* one entry of a series: the f64 components of the value and the time
Entry(value, snap) == [value |-> value, time |-> snap.time]

\* let usage = active / total * 100.0
get_cpu_usage(snaps) ==
    [i \in DOMAIN snaps |->
        LET t == get_cpu_time(snaps[i])
        IN  Entry(<<f64_mul(f64_div(t[1], t[2]), f64(100))>>, snaps[i])]

\* get_ram_usage that pairs the values with the time stamps counted from
\* the back, the index the loop of get_cpu_usage computes for its log line
get_ram_usage_reversed(snaps) ==
    [i \in DOMAIN snaps |->
        Entry(<<f64(snaps[i].reading.memory), f64(snaps[i].reading.swap)>>,
              snaps[Len(snaps) + 1 - i])]

\* (memory.percent() as f64, swap.percent() as f64)
get_ram_usage(snaps) ==
    [i \in DOMAIN snaps |->
        Entry(<<f64(snaps[i].reading.memory), f64(snaps[i].reading.swap)>>,
              snaps[i])]

\* to_percentage that leaves the number of cores out
to_percentage_of_one_core(load, cpu_count) ==
    f64_mul(f64(load), f64(100))

\* let to_percentage = |load| load / cpu_count * 100.0
to_percentage(load, cpu_count) ==
    f64_mul(f64_div(f64(load), f64(cpu_count)), f64(100))

get_load(snaps) ==
    [i \in DOMAIN snaps |->
        LET l == snaps[i].reading.load_avgs
            c == get_cpu_count(snaps[i])
        IN  Entry(<<to_percentage(l.one, c), to_percentage(l.five, c),
                    to_percentage(l.fifteen, c)>>, snaps[i])]

\* to_mib that divides once
to_mib_once(bytes) == f64_div(bytes, f64(1024))

\* let to_mib = |bytes| bytes / 1024.0 / 1024.0
to_mib(bytes) == f64_div(f64_div(bytes, f64(1024)), f64(1024))

get_network(snaps) ==
    [i \in DOMAIN snaps |->
        LET u == get_network_usage(snaps[i])
        IN  Entry(<<to_mib(u[1]), to_mib(u[2])>>, snaps[i])]

\* let to_kib = |bytes: u64| (bytes / 1024) as f64
to_kib(bytes) == f64(bytes \div 1024)

get_disks_speed_usage(snaps) ==
    [i \in DOMAIN snaps |->
        LET u == get_disk_speed_usage(snaps[i])
        IN  Entry(<<to_kib(u[1]), to_kib(u[2])>>, snaps[i])]

\* the fold over get_disks_size_usage, then to_mib(usage)
get_disk_memory_usage(snaps) ==
    [i \in DOMAIN snaps |->
        Entry(<<to_mib(f64_sum(get_disks_size_usage(snaps[i])))>>, snaps[i])]

SeriesNames ==
    {"get_cpu_usage", "get_ram_usage", "get_load", "get_network",
     "get_disks_speed_usage", "get_disk_memory_usage"}

SeriesOf(name, snaps) ==
    CASE name = "get_cpu_usage"         -> get_cpu_usage(snaps)
      [] name = "get_ram_usage"         -> get_ram_usage(snaps)
      [] name = "get_load"              -> get_load(snaps)
      [] name = "get_network"           -> get_network(snaps)
      [] name = "get_disks_speed_usage" -> get_disks_speed_usage(snaps)
      [] name = "get_disk_memory_usage" -> get_disk_memory_usage(snaps)

\* a client that holds a loaded Database calls one of its get_* functions
get_series(p, name) ==
    /\ pc[p] = "idle"
    /\ result[p] = "Ok"
    /\ op[p] = "from_file"
    /\ series' = [name |-> name, values |-> SeriesOf(name, db[p].snapshots)]
    /\ UNCHANGED <<lockfile, path_exists, datafile, now, pc, op, elapsed,
                   cursor, db, result, appvars>>
    /\ last_sweep' = NoSweep

\* the wall clock moves; only take_snapshot and remove_older read it, and
\* both run between from_file_with_write and the persist
Tick ==
    /\ pc[Solo] = "held"
    /\ \E d \in TickValues : now + d <= MaxTime /\ now' = now + d
    /\ UNCHANGED <<lockfile, path_exists, datafile, pc, op, elapsed, cursor, db, result>>
    /\ last_sweep' = NoSweep
    /\ UNCHANGED <<series, appvars>>

(* ------------------------------------------------------------------ *)
(* Spec: concurrent processes running the lock protocol on one path   *)
(* ------------------------------------------------------------------ *)
\* the steps a process takes inside an operation it has started
Inside(p) ==
    \/ lock_poll(p)
    \/ lock_create(p)
    \/ lock_open(p)
    \/ load_database(p)
    \/ seek_start(p)
    \/ write_self_to_file(p)
    \/ unlock(p)

\* the load / persist calls a client of the store makes
Calls(p) ==
    \/ from_file(p)
    \/ from_file_with_write(p)
    \/ write_to_file(p)
    \/ write_and_close_file(p)
    \/ close_file(p)

Idle ==
    /\ lockfile = FALSE
    /\ now = 0
    /\ pc = [p \in Procs |-> "idle"]
    /\ op = [p \in Procs |-> "none"]
    /\ elapsed = [p \in Procs |-> 0]
    /\ cursor = [p \in Procs |-> 0]
    /\ db = [p \in Procs |-> Database_default]
    /\ result = [p \in Procs |-> "none"]
    /\ last_sweep = NoSweep
    /\ series = NoSeries
    /\ AppIdle

Init ==
    /\ Idle
    /\ path_exists \in BOOLEAN
    /\ datafile = <<>>

Next == \E p \in Procs : Inside(p) \/ Calls(p) \/ write_fails(p)

Spec == Init /\ [][Next]_vars

(* ------------------------------------------------------------------ *)
(* LiveSpec: the same processes on an existing file and a sound disk, *)
(* each scheduled fairly while it is inside an operation              *)
(* ------------------------------------------------------------------ *)
InitLive ==
    /\ Idle
    /\ path_exists = TRUE
    /\ datafile = <<>>

NextLive == \E p \in Procs : Inside(p) \/ Calls(p)

\* a process that has started an operation keeps running it
LiveSpec ==
    InitLive /\ [][NextLive]_vars /\ \A p \in Procs : WF_vars(Inside(p))

(* ------------------------------------------------------------------ *)
(* SpecKill: the processes of Spec, any of which may be killed while  *)
(* it is between Database::lock and Database::unlock                  *)
(* ------------------------------------------------------------------ *)
\* the process stops for good while the sentinel it relies on is there;
\* it runs no unlock and nothing else removes the sentinel for it
Kill(p) ==
    /\ pc[p] \in {"load", "seek", "held", "write", "unlock"}
    /\ lockfile
    /\ pc' = [pc EXCEPT ![p] = "killed"]
    /\ UNCHANGED <<lockfile, path_exists, datafile, now, op, elapsed, cursor,
                   db, result>>
    /\ last_sweep' = NoSweep
    /\ UNCHANGED <<series, appvars>>

NextKill ==
    \E p \in Procs : Inside(p) \/ Calls(p) \/ write_fails(p) \/ Kill(p)

SpecKill == Init /\ [][NextKill]_vars

(* ------------------------------------------------------------------ *)
(* SpecStore: one process loading, mutating and persisting a store    *)
(* ------------------------------------------------------------------ *)
\* data files a run can find: an empty one, stores written by
\* other releases of the program, a store with an unreadable version
\* text, and a file that is not a store
InitFiles ==
    {<<>>, <<[garbage |-> 0]>>}
        \cup {serialize([version |-> v, snapshots |-> <<>>]) :
                 v \in {"0.1.0", "0.3.0", "0.3.0-rc", "not-a-version"}}

InitStore ==
    /\ Idle
    /\ path_exists \in BOOLEAN
    /\ datafile \in (IF path_exists THEN InitFiles ELSE {<<>>})

NextStore ==
    \/ Inside(Solo)
    \/ Calls(Solo)
    \/ take_snapshot(Solo)
    \/ \E d \in DaysValues : remove_older(Solo, d)
    \/ Tick

SpecStore == InitStore /\ [][NextStore]_vars

(* ------------------------------------------------------------------ *)
(* SpecRetention: remove_older on the stores a load can return        *)
(* ------------------------------------------------------------------ *)
SeqsUpTo(S, n) == UNION {[1..k -> S] : k \in 0..n}

\* capture times around the two cut-offs of a sweep, and the times at
\* which the sweep runs
SweepTimes == {0, 1, 2, UnitsPerDay, UnitsPerDay + 1}
SweepNows == {UnitsPerDay, UnitsPerDay + 1}

\* the state from_file_with_write leaves: the sentinel is there, the File
\* is open at offset 0 and the Database is the one the file holds
InitRetention ==
    /\ lockfile = TRUE
    /\ path_exists = TRUE
    /\ now \in SweepNows
    /\ pc = [p \in Procs |-> IF p = Solo THEN "held" ELSE "idle"]
    /\ op = [p \in Procs |-> IF p = Solo THEN "from_file_with_write" ELSE "none"]
    /\ elapsed = [p \in Procs |-> 0]
    /\ cursor = [p \in Procs |-> 0]
    /\ result = [p \in Procs |-> IF p = Solo THEN "Ok" ELSE "none"]
    /\ last_sweep = NoSweep
    /\ series = NoSeries
    /\ AppIdle
    /\ \E snaps \in SeqsUpTo([time : SweepTimes, reading : Readings], MaxSnapshots) :
          /\ db = [p \in Procs |->
                     IF p = Solo THEN [version |-> CRATE_VERSION, snapshots |-> snaps]
                                 ELSE Database_default]
          /\ datafile = serialize(db[Solo])

NextRetention == \E d \in DaysValues : remove_older(Solo, d)

SpecRetention == InitRetention /\ [][NextRetention]_vars

(* ------------------------------------------------------------------ *)
(* SpecCollect: snapshots taken on every host, between                *)
(* from_file_with_write on an empty file and the persist              *)
(* ------------------------------------------------------------------ *)
InitCollect ==
    /\ lockfile = TRUE
    /\ path_exists = TRUE
    /\ datafile = <<>>
    /\ now = 0
    /\ pc = [p \in Procs |-> IF p = Solo THEN "held" ELSE "idle"]
    /\ op = [p \in Procs |-> IF p = Solo THEN "from_file_with_write" ELSE "none"]
    /\ elapsed = [p \in Procs |-> 0]
    /\ cursor = [p \in Procs |-> 0]
    /\ result = [p \in Procs |-> IF p = Solo THEN "Ok" ELSE "none"]
    /\ db = [p \in Procs |-> Database_default]
    /\ last_sweep = NoSweep
    /\ series = NoSeries
    /\ AppIdle

NextCollect ==
    \E host \in Hosts, networks_to_ignore \in IgnoreSets :
        \/ take_snapshot_host(Solo, host, networks_to_ignore)
        \/ take_snapshot_services(Solo, host, networks_to_ignore)

SpecCollect == InitCollect /\ [][NextCollect]_vars

(* ------------------------------------------------------------------ *)
(* SpecSeries: the get_* functions applied to loaded stores            *)
(* ------------------------------------------------------------------ *)
\* readings of three hosts: four cores with two interfaces and two
\* partitions; one core with every interface ignored and one partition;
\* two cores with one interface that has moved a MiB and a half
SeriesReadings ==
    {[cpus |-> <<[busy |-> 0, total |-> 2], [busy |-> 0, total |-> 2],
                 [busy |-> 1, total |-> 2], [busy |-> 1, total |-> 2]>>,
      memory |-> 50, swap |-> 0,
      load_avgs |-> [one |-> 1, five |-> 2, fifteen |-> 4],
      networks |-> <<NetIoCounters("lo"), NetIoCounters("eth0")>>,
      disks_io |-> <<[read_bytes |-> 2048, write_bytes |-> 1024],
                     [read_bytes |-> 1500, write_bytes |-> 100]>>,
      disks_memory |-> <<[mountpoint |-> "/", percent |-> 40],
                         [mountpoint |-> "/home", percent |-> 60]>>],
     [cpus |-> <<[busy |-> 3, total |-> 4]>>,
      memory |-> 25, swap |-> 10,
      load_avgs |-> [one |-> 0, five |-> 1, fifteen |-> 3],
      networks |-> <<>>,
      disks_io |-> <<[read_bytes |-> 4096, write_bytes |-> 0]>>,
      disks_memory |-> <<[mountpoint |-> "/", percent |-> 7]>>],
     [cpus |-> <<[busy |-> 1, total |-> 3], [busy |-> 2, total |-> 3]>>,
      memory |-> 99, swap |-> 100,
      load_avgs |-> [one |-> 1, five |-> 1, fifteen |-> 0],
      networks |-> <<[bytes_recv |-> 1572864, bytes_sent |-> 0]>>,
      disks_io |-> <<>>,
      disks_memory |-> <<>>]}

SeriesTimes == {0, 1, UnitsPerDay}

\* a client has loaded a store with from_file
InitSeries ==
    /\ lockfile = FALSE
    /\ path_exists = TRUE
    /\ now = UnitsPerDay
    /\ pc = [p \in Procs |-> "idle"]
    /\ op = [p \in Procs |-> IF p = Solo THEN "from_file" ELSE "none"]
    /\ elapsed = [p \in Procs |-> 0]
    /\ cursor = [p \in Procs |-> 0]
    /\ result = [p \in Procs |-> IF p = Solo THEN "Ok" ELSE "none"]
    /\ last_sweep = NoSweep
    /\ series = NoSeries
    /\ AppIdle
    /\ \E snaps \in SeqsUpTo([time : SeriesTimes, reading : SeriesReadings],
                              MaxSnapshots) :
          /\ db = [p \in Procs |->
                     IF p = Solo THEN [version |-> CRATE_VERSION, snapshots |-> snaps]
                                 ELSE Database_default]
          /\ datafile = serialize(db[Solo])

NextSeries == \E name \in SeriesNames : get_series(Solo, name)

SpecSeries == InitSeries /\ [][NextSeries]_vars

(* ------------------------------------------------------------------ *)
(* SpecFarSweep: remove_older with arguments at the limits of chrono  *)
(* ------------------------------------------------------------------ *)
NextFarSweep == \E kilodays \in FarDays : remove_older_far(Solo, kilodays)

SpecFarSweep == InitRetention /\ [][NextFarSweep]_vars

(* ------------------------------------------------------------------ *)
(* sysmet-http: the cached ChartData, the actualization task, the     *)
(* request handlers and the Ctrl-C handler of run_server              *)
(* ------------------------------------------------------------------ *)
\* how many intervals of the actualization task elapse
MaxInstant == 1

\* the store's own variables
storevars == <<lockfile, path_exists, datafile, now, pc, op, elapsed, cursor,
               db, result>>

\* what none of the steps of sysmet-http touches
NotDash == <<last_sweep, series, run, alertvars>>

\* the task waits in select! until ACTUALIZATION_INTERVAL has elapsed; the
\* first tick of a tokio interval is due at once
interval_tick ==
    /\ task = "select"
    /\ now < MaxInstant
    /\ now' = now + 1
    /\ task' = "select_ready"
    /\ UNCHANGED <<lockfile, path_exists, datafile, pc, op, elapsed, cursor,
                   db, result>>
    /\ UNCHANGED <<chart_data, settled, rwlock, home, ctrl_c, db_rx,
                   server_rx, server, updater>>
    /\ UNCHANGED NotDash

\* select! takes the interval branch: Database::from_file(&database)
task_from_file ==
    /\ task = "select_ready"
    /\ Call(Solo, "from_file")
    /\ task' = "from_file"
    /\ UNCHANGED <<chart_data, settled, rwlock, home, ctrl_c, db_rx,
                   server_rx, server, updater>>
    /\ UNCHANGED <<run, alertvars>>

\* if let Ok(database) = ..: an Err ends the turn of the loop
task_loaded ==
    /\ task = "from_file"
    /\ pc[Solo] = "idle"
    /\ task' = IF result[Solo] = "Ok" THEN "write" ELSE "select"
    /\ UNCHANGED storevars
    /\ UNCHANGED <<chart_data, settled, rwlock, home, ctrl_c, db_rx,
                   server_rx, server, updater>>
    /\ UNCHANGED NotDash

\* task_write that does not wait for the lock
task_write_unlocked ==
    /\ task = "write"
    /\ task' = "metrics"
    /\ UNCHANGED storevars
    /\ UNCHANGED <<chart_data, settled, rwlock, home, ctrl_c, db_rx, server_rx,
                   server, updater>>
    /\ UNCHANGED NotDash

\* shared_chart_data.write().await returns once no guard is out
task_write ==
    /\ task = "write"
    /\ ~rwlock.writer
    /\ rwlock.readers = {}
    /\ rwlock' = [rwlock EXCEPT !.writer = TRUE]
    /\ task' = "metrics"
    /\ UNCHANGED storevars
    /\ UNCHANGED <<chart_data, settled, home, ctrl_c, db_rx, server_rx,
                   server, updater>>
    /\ UNCHANGED NotDash

\* chart_data.metrics = database
task_metrics ==
    /\ task = "metrics"
    /\ chart_data' = [chart_data EXCEPT !.metrics = db[Solo]]
    /\ task' = "last_updated_time"
    /\ UNCHANGED storevars
    /\ UNCHANGED <<settled, rwlock, home, ctrl_c, db_rx, server_rx, server,
                   updater>>
    /\ UNCHANGED NotDash

\* chart_data.last_updated_time = Instant::now(); the write guard is
\* dropped at the end of the block
task_last_updated_time ==
    /\ task = "last_updated_time"
    /\ chart_data' = [chart_data EXCEPT !.last_updated_time = now]
    /\ settled' = chart_data'
    /\ rwlock' = [rwlock EXCEPT !.writer = FALSE]
    /\ task' = "select"
    /\ UNCHANGED storevars
    /\ UNCHANGED <<home, ctrl_c, db_rx, server_rx, server, updater>>
    /\ UNCHANGED NotDash

\* select! takes the db_rx branch: break
task_break ==
    /\ task \in {"select", "select_ready"}
    /\ db_rx = "sent"
    /\ db_rx' = "received"
    /\ task' = "finished"
    /\ UNCHANGED storevars
    /\ UNCHANGED <<chart_data, settled, rwlock, home, ctrl_c, server_rx,
                   server, updater>>
    /\ UNCHANGED NotDash

\* the server hands a request for "/" to home
home_request(h) ==
    /\ server = "serving"
    /\ home[h].at = "idle"
    /\ home' = [home EXCEPT ![h].at = "read"]
    /\ UNCHANGED storevars
    /\ UNCHANGED <<chart_data, settled, rwlock, task, ctrl_c, db_rx,
                   server_rx, server, updater>>
    /\ UNCHANGED NotDash

\* chart_data.read().await returns while no writer holds the lock or waits
\* for it (the RwLock of tokio serves its waiters in order)
home_read(h) ==
    /\ home[h].at = "read"
    /\ ~rwlock.writer
    /\ task # "write"
    /\ rwlock' = [rwlock EXCEPT !.readers = @ \cup {h}]
    /\ home' = [home EXCEPT ![h].at = "clone"]
    /\ UNCHANGED storevars
    /\ UNCHANGED <<chart_data, settled, task, ctrl_c, db_rx, server_rx,
                   server, updater>>
    /\ UNCHANGED NotDash

\* home_clone that first brings the cached data up to date with the data
\* file
home_clone_reloading(h) ==
    /\ home[h].at = "clone"
    /\ chart_data' = IF path_exists /\ load_outcome(datafile) = "Ok"
                     THEN [chart_data EXCEPT !.metrics = load_value(datafile)]
                     ELSE chart_data
    /\ home' = [home EXCEPT ![h] = [at |-> "render", seen |-> chart_data'.metrics]]
    /\ rwlock' = [rwlock EXCEPT !.readers = @ \ {h}]
    /\ UNCHANGED storevars
    /\ UNCHANGED <<settled, task, ctrl_c, db_rx, server_rx, server, updater>>
    /\ UNCHANGED NotDash

\* data.metrics.clone(); the read guard is dropped at the end of the block
home_clone(h) ==
    /\ home[h].at = "clone"
    /\ home' = [home EXCEPT ![h] = [at |-> "render", seen |-> chart_data.metrics]]
    /\ rwlock' = [rwlock EXCEPT !.readers = @ \ {h}]
    /\ UNCHANGED storevars
    /\ UNCHANGED <<chart_data, settled, task, ctrl_c, db_rx, server_rx,
                   server, updater>>
    /\ UNCHANGED NotDash

\* the page is rendered from the clone and returned
home_render(h) ==
    /\ home[h].at = "render"
    /\ home' = [home EXCEPT ![h] = [at |-> "idle", seen |-> Database_default]]
    /\ UNCHANGED storevars
    /\ UNCHANGED <<chart_data, settled, rwlock, task, ctrl_c, db_rx,
                   server_rx, server, updater>>
    /\ UNCHANGED NotDash

\* tokio::signal::ctrl_c().await returns; db_tx.send(())
ctrl_c_db_tx_send ==
    /\ ctrl_c = "waiting"
    /\ db_rx' = "sent"
    /\ ctrl_c' = "handle"
    /\ UNCHANGED storevars
    /\ UNCHANGED <<chart_data, settled, rwlock, task, home, server_rx, server,
                   updater>>
    /\ UNCHANGED NotDash

\* ctrl_c_handle_await that does not wait for the task
ctrl_c_handle_detached ==
    /\ ctrl_c = "handle"
    /\ ctrl_c' = "server_tx"
    /\ UNCHANGED storevars
    /\ UNCHANGED <<chart_data, settled, rwlock, task, home, db_rx, server_rx,
                   server, updater>>
    /\ UNCHANGED NotDash

\* handle.await returns when the actualization task has returned
ctrl_c_handle_await ==
    /\ ctrl_c = "handle"
    /\ task = "finished"
    /\ ctrl_c' = "server_tx"
    /\ UNCHANGED storevars
    /\ UNCHANGED <<chart_data, settled, rwlock, task, home, db_rx, server_rx,
                   server, updater>>
    /\ UNCHANGED NotDash

\* server_tx.send(())
ctrl_c_server_tx_send ==
    /\ ctrl_c = "server_tx"
    /\ server_rx' = "sent"
    /\ ctrl_c' = "done"
    /\ UNCHANGED storevars
    /\ UNCHANGED <<chart_data, settled, rwlock, task, home, db_rx, server,
                   updater>>
    /\ UNCHANGED NotDash

\* with_graceful_shutdown: server_rx.await returns, the server takes no
\* more requests
graceful_shutdown ==
    /\ server_rx = "sent"
    /\ server_rx' = "received"
    /\ server' = "stopped"
    /\ UNCHANGED storevars
    /\ UNCHANGED <<chart_data, settled, rwlock, task, home, ctrl_c, db_rx,
                   updater>>
    /\ UNCHANGED NotDash

(* Another process (a run of sysmet-update) that works on the same path. *)
\* what the updater leaves in the data file: a store of one snapshot, or
\* bytes that are no store
UpdaterFiles ==
    {<<[garbage |-> 0]>>,
     serialize([version |-> CRATE_VERSION,
                snapshots |-> <<SnapShot_new(HostReading, 0)>>])}

\* Database::from_file_with_write of the updater finds no sentinel and
\* creates it, and the data file with it
updater_from_file_with_write ==
    /\ updater = "away"
    /\ ~lockfile
    /\ lockfile' = TRUE
    /\ path_exists' = TRUE
    /\ updater' = "holding"
    /\ UNCHANGED <<datafile, now, pc, op, elapsed, cursor, db, result>>
    /\ UNCHANGED <<chart_data, settled, rwlock, task, home, ctrl_c, db_rx,
                   server_rx, server>>
    /\ UNCHANGED NotDash

\* write_and_close_file of the updater: the write, then the unlock
updater_write_and_close_file(f) ==
    /\ updater = "holding"
    /\ datafile' = f
    /\ lockfile' = FALSE
    /\ updater' = "away"
    /\ UNCHANGED <<path_exists, now, pc, op, elapsed, cursor, db, result>>
    /\ UNCHANGED <<chart_data, settled, rwlock, task, home, ctrl_c, db_rx,
                   server_rx, server>>
    /\ UNCHANGED NotDash

\* the calls of Database::from_file the task makes
from_file_steps(p) ==
    \/ lock_poll(p)
    \/ lock_create(p)
    \/ lock_open(p)
    \/ load_database(p)
    \/ unlock(p)

InitDash ==
    /\ Idle
    /\ path_exists \in BOOLEAN
    /\ datafile = <<>>

NextDash ==
    \/ interval_tick
    \/ task_from_file
    \/ from_file_steps(Solo)
    \/ task_loaded
    \/ task_write
    \/ task_metrics
    \/ task_last_updated_time
    \/ task_break
    \/ \E h \in Handlers :
          home_request(h) \/ home_read(h) \/ home_clone(h) \/ home_render(h)
    \/ ctrl_c_db_tx_send
    \/ ctrl_c_handle_await
    \/ ctrl_c_server_tx_send
    \/ graceful_shutdown
    \/ updater_from_file_with_write
    \/ \E f \in UpdaterFiles : updater_write_and_close_file(f)

SpecDash == InitDash /\ [][NextDash]_vars

(* ------------------------------------------------------------------ *)
(* sysmet-update: one run of main                                     *)
(* ------------------------------------------------------------------ *)
\* values of --times; none stands for a run without the option
TimesValues == {<<>>, <<0>>, <<2>>}

\* values of --cleanup-older, in thousands of days: a sweep that succeeds,
\* one whose cut-off is no date, one whose argument is no Duration
CleanupValues ==
    {<<>>, <<1>>, <<NowKiloDays - DATE_MIN_KILODAYS + 1>>,
     <<DURATION_MAX_KILODAYS + 1>>}

\* what none of the steps of main touches
NotUpdate == <<series, dashvars, alertvars>>

\* let app = Cli::parse()
main_parse(times, cleanup_older, dry_run) ==
    /\ run.at = "parse"
    /\ run' = [at |-> "from_file_with_write", times |-> times,
               left |-> IF times = <<>> THEN 1 ELSE times[1],
               cleanup_older |-> cleanup_older, dry_run |-> dry_run,
               appended |-> 0, outcome |-> "none"]
    /\ UNCHANGED storevars
    /\ last_sweep' = NoSweep
    /\ UNCHANGED NotUpdate

\* Database::from_file_with_write(&app.database) is called
main_from_file_with_write ==
    /\ run.at = "from_file_with_write"
    /\ op[Solo] = "none"
    /\ from_file_with_write(Solo)

\* the position after the collection: the sweep
AfterCollect(left) == IF left = 0 THEN "remove_older" ELSE "take_snapshot"

\* from_file_with_write has returned: `?` ends the run on an Err
main_loaded ==
    /\ run.at = "from_file_with_write"
    /\ op[Solo] = "from_file_with_write"
    /\ pc[Solo] \in {"held", "idle"}
    /\ run' = IF pc[Solo] = "held"
              THEN [run EXCEPT !.at = AfterCollect(run.left)]
              ELSE [run EXCEPT !.at = "exited", !.outcome = result[Solo]]
    /\ UNCHANGED storevars
    /\ last_sweep' = NoSweep
    /\ UNCHANGED NotUpdate

\* main_take_snapshot that appends two snapshots at each call
main_take_snapshot_twice(failed) ==
    /\ run.at = "take_snapshot"
    /\ run.left > 0
    /\ pc[Solo] = "held"
    /\ IF failed
       THEN /\ run' = [run EXCEPT !.at = "exited", !.outcome = "Psutil"]
            /\ Return(Solo, "Psutil")
            /\ UNCHANGED db
       ELSE /\ db' = [db EXCEPT ![Solo].snapshots =
                         Append(Append(@, SnapShot_new(HostReading, now)),
                                SnapShot_new(HostReading, now))]
            /\ run' = [run EXCEPT !.left = @ - 1, !.appended = @ + 1,
                                  !.at = AfterCollect(run.left - 1)]
            /\ UNCHANGED <<pc, op, elapsed, cursor, result>>
    /\ UNCHANGED <<lockfile, path_exists, datafile, now>>
    /\ last_sweep' = NoSweep
    /\ UNCHANGED NotUpdate

\* database.take_snapshot(..)?, once or in `for _ in 0..times`: `?` ends
\* the run when a read of the collection fails
main_take_snapshot(failed) ==
    /\ run.at = "take_snapshot"
    /\ run.left > 0
    /\ pc[Solo] = "held"
    /\ IF failed
       THEN /\ run' = [run EXCEPT !.at = "exited", !.outcome = "Psutil"]
            /\ Return(Solo, "Psutil")
            /\ UNCHANGED db
       ELSE /\ db' = [db EXCEPT ![Solo].snapshots =
                         Append(@, SnapShot_new(HostReading, now))]
            /\ run' = [run EXCEPT !.left = @ - 1, !.appended = @ + 1,
                                  !.at = AfterCollect(run.left - 1)]
            /\ UNCHANGED <<pc, op, elapsed, cursor, result>>
    /\ UNCHANGED <<lockfile, path_exists, datafile, now>>
    /\ last_sweep' = NoSweep
    /\ UNCHANGED NotUpdate

\* if let Some(days_number) = app.cleanup_older {
\*     database.remove_older(days_number)? }
main_remove_older ==
    /\ run.at = "remove_older"
    /\ pc[Solo] = "held"
    /\ IF run.cleanup_older = <<>>
       THEN /\ run' = [run EXCEPT !.at = "close"]
            /\ UNCHANGED <<pc, op, elapsed, cursor, result, db>>
       ELSE LET kilodays == run.cleanup_older[1] IN
            IF Duration_days_panics(kilodays)
            THEN /\ run' = [run EXCEPT !.at = "exited", !.outcome = "panicked"]
                 /\ Return(Solo, "panicked")
                 /\ UNCHANGED db
            ELSE IF ~checked_sub_signed_is_some(NowKiloDays, kilodays)
                 THEN /\ run' = [run EXCEPT !.at = "exited",
                                            !.outcome = "OldestDateOverflow"]
                      /\ Return(Solo, "OldestDateOverflow")
                      /\ UNCHANGED db
                 ELSE /\ db' = [db EXCEPT ![Solo].snapshots =
                                   SelectSeq(@, LAMBDA snap :
                                       keeps([snap EXCEPT !.time = NowKiloDays],
                                             NowKiloDays - kilodays))]
                      /\ run' = [run EXCEPT !.at = "close"]
                      /\ UNCHANGED <<pc, op, elapsed, cursor, result>>
    /\ UNCHANGED <<lockfile, path_exists, datafile, now>>
    /\ last_sweep' = NoSweep
    /\ UNCHANGED NotUpdate

\* if app.dry_run { database.close_file(&path)? }
main_close_file ==
    /\ run.at = "close"
    /\ run.dry_run
    /\ close_file(Solo)

\* else { database.write_and_close_file(file, &path)? }
main_write_and_close_file ==
    /\ run.at = "close"
    /\ ~run.dry_run
    /\ write_and_close_file(Solo)

\* close_file or write_and_close_file has returned; Ok(()) or the Err of `?`
main_exit ==
    /\ run.at = "close"
    /\ op[Solo] \in {"close_file", "write_and_close_file", "write_to_file"}
    /\ pc[Solo] = "idle"
    /\ run' = [run EXCEPT !.at = "exited", !.outcome = result[Solo]]
    /\ UNCHANGED storevars
    /\ last_sweep' = NoSweep
    /\ UNCHANGED NotUpdate

NextUpdate ==
    \/ \E times \in TimesValues, cleanup_older \in CleanupValues,
          dry_run \in BOOLEAN : main_parse(times, cleanup_older, dry_run)
    \/ main_from_file_with_write
    \/ lock_poll(Solo)
    \/ lock_create(Solo)
    \/ lock_open(Solo)
    \/ load_database(Solo)
    \/ seek_start(Solo)
    \/ main_loaded
    \/ \E failed \in BOOLEAN : main_take_snapshot(failed)
    \/ main_remove_older
    \/ main_close_file
    \/ main_write_and_close_file
    \/ write_self_to_file(Solo)
    \/ write_fails(Solo)
    \/ unlock(Solo)
    \/ main_exit

\* one run on each of the files of InitStore
SpecUpdate == InitStore /\ [][NextUpdate]_vars

(* ------------------------------------------------------------------ *)
(* sysmet-notify: successive runs of main on one last-sent file       *)
(* ------------------------------------------------------------------ *)
\* values of --cooldown: one unit, two units, and a duration that added to
\* any date of this century gives no date
CooldownValues ==
    {[kilodays |-> 0, units |-> 1], [kilodays |-> 0, units |-> 2],
     [kilodays |-> DATE_MAX_KILODAYS, units |-> 0]}

\* value_parser!(u32).range(0..=100): the largest threshold there is
PERCENT_MAX == 100

\* the percentage a threshold is lowered to
ThresholdPercent == 2

\* the thresholds of a run (each has a default, so each is Some): all six
\* lowered, none that a percentage can exceed, or the one on memory lowered
ThresholdValues ==
    {[m \in Metrics |-> <<ThresholdPercent>>],
     [m \in Metrics |-> <<PERCENT_MAX>>],
     [m \in Metrics |-> IF m = "memory" THEN <<ThresholdPercent>>
                                        ELSE <<PERCENT_MAX>>]}

\* percentages the host reports: all below the threshold, all equal to it,
\* all above it, only the load above it, and RAM above it with the swap
\* equal to it
HostPercents ==
    {[cpu |-> v, ram |-> v, swap |-> v, disk |-> v, avg_load |-> v] :
        v \in {0, ThresholdPercent, 2 * ThresholdPercent}}
    \cup {[cpu |-> 0, ram |-> 0, swap |-> 0, disk |-> 0,
           avg_load |-> 2 * ThresholdPercent],
          [cpu |-> 0, ram |-> 2 * ThresholdPercent, swap |-> ThresholdPercent,
           disk |-> 0, avg_load |-> 0]}

\* PercentSnapshot { cpu, ram, swap, memory: (ram + swap) / 2.0, disk,
\* avg_load }
PercentSnapshot(host) ==
    [m \in Metrics |-> IF m = "memory" THEN (host.ram + host.swap) \div 2
                                       ELSE host[m]]

\* is_threshold_crossed with >= for >
is_threshold_crossed_or_met(threshold, observered_value) ==
    /\ threshold # <<>>
    /\ observered_value >= threshold[1]

\* if let Some(threshold) = threshold {
\*     if observered_value as f64 > threshold as f64 { .. = true } }
is_threshold_crossed(threshold, observered_value) ==
    /\ threshold # <<>>
    /\ observered_value > threshold[1]

\* now.to_rfc3339(): the text of the date
to_rfc3339(t) == <<[date |-> t]>>

\* content.parse::<DateTime<Utc>>() is Ok
parses_as_date(content) == Len(content) = 1 /\ IsCell(content[1], "date")

\* date.checked_add_signed(cooldown) is Some: the sum is a date
checked_add_signed_is_some(cooldown) ==
    NowKiloDays + cooldown.kilodays <= DATE_MAX_KILODAYS

\* let after_cooldown = if !content.is_empty() { match content.parse() {
\*     Ok(date) => date.checked_add_signed(..).map_or(true, |i| i < now),
\*     Err(_) => true } } else { true }
after_cooldown(content, cooldown, t) ==
    IF content # <<>>
    THEN IF parses_as_date(content)
         THEN IF checked_add_signed_is_some(cooldown)
              THEN cooldown.kilodays = 0 /\ content[1].date + cooldown.units < t
              ELSE TRUE
         ELSE TRUE
    ELSE TRUE

\* what none of the steps of sysmet-notify touches
NotNotify == <<storevars, last_sweep, series, dashvars, run>>

\* let app = cli::Cli::parse(); let now = chrono::Utc::now()
notify_parse(dry_run, cooldown, thresholds) ==
    /\ alert.at = "parse"
    /\ alert' = [NoAlert EXCEPT !.at = "cooldown", !.start = now,
                                !.dry_run = dry_run, !.cooldown = cooldown,
                                !.thresholds = thresholds]
    /\ UNCHANGED <<last_sent, mails>>
    /\ UNCHANGED <<lockfile, path_exists, datafile, now, pc, op, elapsed,
                   cursor, db, result>>
    /\ last_sweep' = NoSweep
    /\ UNCHANGED <<series, dashvars, run>>

\* if !app.dry_run { .. if !after_cooldown { return Ok(()) } }
notify_cooldown ==
    /\ alert.at = "cooldown"
    /\ alert' = IF ~alert.dry_run
                   /\ ~after_cooldown(last_sent, alert.cooldown, alert.start)
                THEN [alert EXCEPT !.at = "exited", !.outcome = "cooldown"]
                ELSE [alert EXCEPT !.at = "collect"]
    /\ UNCHANGED <<last_sent, mails>>
    /\ UNCHANGED <<lockfile, path_exists, datafile, now, pc, op, elapsed,
                   cursor, db, result>>
    /\ last_sweep' = NoSweep
    /\ UNCHANGED <<series, dashvars, run>>

\* notify_collect that takes its percentages from the store
notify_collect_from_store(host, failed) ==
    /\ alert.at = "collect"
    /\ ~lockfile
    /\ lockfile' = TRUE
    /\ alert' = IF failed
                THEN [alert EXCEPT !.at = "exited", !.outcome = "Psutil"]
                ELSE [alert EXCEPT !.at = "compare",
                                   !.snapshot = PercentSnapshot(host)]
    /\ UNCHANGED <<last_sent, mails>>
    /\ UNCHANGED <<path_exists, datafile, now, pc, op, elapsed, cursor, db,
                   result>>
    /\ last_sweep' = NoSweep
    /\ UNCHANGED <<series, dashvars, run>>

\* memory_usage_percent()?, cpu_usage_percent()?, disk_usage_percent()?,
\* load_avg_percent()?: psutil is read afresh; `?` ends the run on an Err
notify_collect(host, failed) ==
    /\ alert.at = "collect"
    /\ alert' = IF failed
                THEN [alert EXCEPT !.at = "exited", !.outcome = "Psutil"]
                ELSE [alert EXCEPT !.at = "compare",
                                   !.snapshot = PercentSnapshot(host)]
    /\ UNCHANGED <<last_sent, mails>>
    /\ UNCHANGED <<lockfile, path_exists, datafile, now, pc, op, elapsed,
                   cursor, db, result>>
    /\ last_sweep' = NoSweep
    /\ UNCHANGED <<series, dashvars, run>>

\* the six calls of is_threshold_crossed and the body of the mail; without
\* a threshold crossed the run returns Ok(()), and so does a dry run
notify_compare ==
    /\ alert.at = "compare"
    /\ LET crossed == {m \in Metrics :
                          is_threshold_crossed(alert.thresholds[m],
                                               alert.snapshot[m])}
       IN  alert' = IF crossed = {}
                    THEN [alert EXCEPT !.at = "exited", !.outcome = "quiet"]
                    ELSE IF alert.dry_run
                         THEN [alert EXCEPT !.at = "exited", !.crossed = crossed,
                                            !.outcome = "dry_run"]
                         ELSE [alert EXCEPT !.at = "send", !.crossed = crossed]
    /\ UNCHANGED <<last_sent, mails>>
    /\ UNCHANGED <<lockfile, path_exists, datafile, now, pc, op, elapsed,
                   cursor, db, result>>
    /\ last_sweep' = NoSweep
    /\ UNCHANGED <<series, dashvars, run>>

\* match mailer.send(&email) { Ok(_) => { File::options()..open(..)?;
\* .. write_all(now.to_rfc3339()) }, Err(e) => error!(..) }
notify_send(sent, opened) ==
    /\ alert.at = "send"
    /\ mails' = IF sent THEN Append(mails, alert.start) ELSE mails
    /\ last_sent' = IF sent /\ opened THEN to_rfc3339(alert.start) ELSE last_sent
    /\ alert' = [alert EXCEPT !.at = "exited",
                              !.outcome = IF ~sent THEN "send_failed"
                                          ELSE IF opened THEN "sent" ELSE "Io"]
    /\ UNCHANGED <<lockfile, path_exists, datafile, now, pc, op, elapsed,
                   cursor, db, result>>
    /\ last_sweep' = NoSweep
    /\ UNCHANGED <<series, dashvars, run>>

\* the run is over; time passes and the tool is started again
notify_again ==
    /\ alert.at = "exited"
    /\ \E d \in TickValues : now + d <= MaxTime /\ now' = now + d
    /\ alert' = NoAlert
    /\ UNCHANGED <<last_sent, mails>>
    /\ UNCHANGED <<lockfile, path_exists, datafile, pc, op, elapsed, cursor,
                   db, result>>
    /\ last_sweep' = NoSweep
    /\ UNCHANGED <<series, dashvars, run>>

\* what the first run finds in the last-sent file: nothing, a text that is
\* no date, or the date of an earlier mail
LastSentValues == {<<>>, <<[garbage |-> 0]>>, to_rfc3339(0)}

\* the store is at rest with its sentinel absent; the tool has not run yet
InitNotify ==
    /\ lockfile = FALSE
    /\ path_exists = TRUE
    /\ datafile = <<>>
    /\ now = 0
    /\ pc = [p \in Procs |-> "idle"]
    /\ op = [p \in Procs |-> "none"]
    /\ elapsed = [p \in Procs |-> 0]
    /\ cursor = [p \in Procs |-> 0]
    /\ db = [p \in Procs |-> Database_default]
    /\ result = [p \in Procs |-> "none"]
    /\ last_sweep = NoSweep
    /\ series = NoSeries
    /\ DashIdle
    /\ run = NoRun
    /\ last_sent \in LastSentValues
    /\ alert = NoAlert
    /\ mails = <<>>

NextNotify ==
    \/ \E dry_run \in BOOLEAN, cooldown \in CooldownValues,
          thresholds \in ThresholdValues :
             notify_parse(dry_run, cooldown, thresholds)
    \/ notify_cooldown
    \/ \E host \in HostPercents, failed \in BOOLEAN : notify_collect(host, failed)
    \/ notify_compare
    \/ \E sent \in BOOLEAN, opened \in BOOLEAN : notify_send(sent, opened)
    \/ notify_again

SpecNotify == InitNotify /\ [][NextNotify]_vars

(* ================================================================== *)
(* Properties of the lock protocol                                    *)
(* ================================================================== *)
\* p is past Database::lock and has not yet run Database::unlock
HoldsLock(p) == pc[p] \in {"load", "seek", "held", "write", "unlock"}

\* p has created the sentinel in its current operation
PastCreate(p) == pc[p] = "lock_open" \/ HoldsLock(p)

\* C1: at most one process at a time is between a successful lock
\* acquisition on P and its matching release.
MutualExclusion ==
    \A p, q \in Procs : (HoldsLock(p) /\ HoldsLock(q)) => p = q

\* C2: a process leaves the polling loop towards the creation of the
\* sentinel only on a poll that saw P.lock absent; a poll that sees it
\* present sleeps again while the 5 s window is open, and once the window
\* has passed it returns LockFileTimeout; such a poll never creates the
\* sentinel and never touches the data file.
AcquireOnlyWhenAbsent ==
    [][\A p \in Procs :
          (pc[p] = "lock_poll" /\ (pc'[p] # pc[p] \/ elapsed'[p] # elapsed[p])) =>
             IF lockfile
             THEN /\ pc'[p] # "lock_create"
                  /\ UNCHANGED <<lockfile, path_exists, datafile>>
                  /\ IF elapsed[p] > LOCKFILE_TIMEOUT
                     THEN pc'[p] = "idle" /\ result'[p] = "LockFileTimeout"
                     ELSE /\ pc'[p] = "lock_poll"
                          /\ elapsed'[p] >= elapsed[p] + SLEEP_DURATION_BEFORE_RETRY_LOCK
             ELSE pc'[p] = "lock_create" /\ result'[p] # "LockFileTimeout"]_vars

\* a process has given up with LockFileTimeout while the sentinel of
\* another operation is still there
TimedOutOnHeldLock ==
    \E p \in Procs :
        /\ pc[p] = "idle"
        /\ result[p] = "LockFileTimeout"
        /\ lockfile

\* C4: every operation that created P.lock has deleted it by the time it
\* returns: when no process is between the creation of the sentinel and
\* its release, the sentinel does not exist.
LockReleasedOnReturn ==
    (\A p \in Procs : ~PastCreate(p)) => ~lockfile

\* C3: a process polling for P whose poll can find the sentinel gone (the
\* holder has released) goes on to create the sentinel itself, unless
\* another process re-creates the sentinel before that poll.
WaiterAcquiresAfterRelease ==
    \A p \in Procs :
        (pc[p] = "lock_poll" /\ ~lockfile)
            ~> (PastCreate(p) \/ (pc[p] = "lock_poll" /\ lockfile))

\* a process that has slept on a present sentinel is past the loop
WaitedThenAcquired ==
    \E p \in Procs : pc[p] = "lock_create" /\ elapsed[p] > 0

\* C11: once a process has been killed while holding the lock, the
\* sentinel stays, and no poll of any process finds it absent: no acquire
\* attempt gets past the polling loop.
OrphanedSentinelBlocksAll ==
    [][(\E k \in Procs : pc[k] = "killed") =>
          /\ lockfile'
          /\ \A q \in Procs :
                pc[q] = "lock_poll" => pc'[q] # "lock_create"]_vars

\* C13: every acquire attempt leaves the polling loop, towards the creation
\* of the sentinel or with LockFileTimeout, whatever the other processes do;
\* a poll that stays in the loop found the timeout not yet passed and adds
\* at least one sleep interval to the elapsed time (so the polls of one
\* attempt are bounded by timeout / interval), and after LockFileTimeout
\* only a new call of the caller starts another attempt.
AcquireTerminates ==
    /\ \A p \in Procs :
          (pc[p] = "lock_poll") ~>
              (\/ pc[p] = "lock_create"
               \/ pc[p] = "idle" /\ result[p] = "LockFileTimeout")
    /\ [][\A p \in Procs :
            /\ (pc[p] = "lock_poll" /\ pc'[p] = "lock_poll"
                    /\ elapsed'[p] # elapsed[p]) =>
                  /\ elapsed[p] <= LOCKFILE_TIMEOUT
                  /\ elapsed'[p] >= elapsed[p] + SLEEP_DURATION_BEFORE_RETRY_LOCK
            /\ (pc[p] = "lock_poll" /\ pc'[p] \notin {"lock_poll", "lock_create"}) =>
                  /\ pc'[p] = "idle"
                  /\ result'[p] = "LockFileTimeout"
            /\ (pc[p] = "idle" /\ result[p] = "LockFileTimeout"
                    /\ pc'[p] # "idle") =>
                  result'[p] = "pending"]_vars

\* a process gave up on a sentinel that another process, at rest between
\* from_file_with_write and its persist, kept for the whole waiting period
GaveUpOnRestingHolder ==
    \E p, q \in Procs :
        /\ pc[p] = "idle"
        /\ result[p] = "LockFileTimeout"
        /\ pc[q] = "held"

\* a caller between the return of from_file_with_write and the return of
\* write_and_close_file / close_file
InCycle(p) ==
    \/ pc[p] = "held"
    \/ /\ pc[p] \in {"write", "unlock"}
       /\ op[p] \in {"write_and_close_file", "close_file"}

\* C12: from the successful return of from_file_with_write until
\* write_and_close_file or close_file returns, the sentinel exists all the
\* time and the caller never goes back through the acquisition.
CycleUnderOneAcquisition ==
    /\ [](\A p \in Procs : InCycle(p) => lockfile)
    /\ [][\A p \in Procs :
            InCycle(p) =>
                pc'[p] \notin {"lock_poll", "lock_create", "lock_open"}]_vars

(* ================================================================== *)
(* Properties of persist and load                                     *)
(* ================================================================== *)
\* p's last operation was a persist and it returned Ok
JustPersisted(p) ==
    /\ pc[p] = "idle"
    /\ op[p] \in {"write_to_file", "write_and_close_file"}
    /\ result[p] = "Ok"

\* C5: after a successful persist, by either call shape, the data file
\* holds exactly the serialization of the in-memory Store and nothing
\* of its previous contents.
PersistReplacesContents ==
    JustPersisted(Solo) => datafile = serialize(db[Solo])

\* C6 as stated: a non-empty Store that was persisted loads back with the
\* same snapshots and with the running program's version, whatever
\* version it carried.
RoundTripCurrentVersion ==
    (JustPersisted(Solo) /\ db[Solo].snapshots # <<>>) =>
        /\ load_outcome(datafile) = "Ok"
        /\ load_value(datafile).snapshots = db[Solo].snapshots
        /\ load_value(datafile).version = CRATE_VERSION

\* C6 amended: a non-empty Store that was persisted loads back with the
\* same snapshots and with the version the persisted Store carried; no
\* Store in memory carries a release newer than the running program.
RoundTripOwnVersion ==
    /\ (JustPersisted(Solo) /\ db[Solo].snapshots # <<>>) =>
          /\ load_outcome(datafile) = "Ok"
          /\ load_value(datafile) = db[Solo]
    /\ ~VersionReqGreaterMatches(SemVerOf[CRATE_VERSION],
                                 SemVerOf[db[Solo].version])

\* a non-empty Store of an older release has been persisted
PersistedOlderVersion ==
    /\ JustPersisted(Solo)
    /\ db[Solo].snapshots # <<>>
    /\ db[Solo].version = "0.1.0"

(* ================================================================== *)
(* Properties of the retention sweep                                  *)
(* ================================================================== *)
Range(f) == {f[i] : i \in DOMAIN f}

Times(snaps) == [i \in DOMAIN snaps |-> snaps[i].time]

\* cutoff = now - days of the sweep the last step made
Cutoff == last_sweep.at - last_sweep.days * UnitsPerDay

\* `small` is `big` with some elements left out, the others in order
RECURSIVE IsSubSeq(_, _)
IsSubSeq(small, big) ==
    IF small = <<>> THEN TRUE
    ELSE IF big = <<>> THEN FALSE
    ELSE IF Head(small) = Head(big)
         THEN IsSubSeq(Tail(small), Tail(big)) \/ IsSubSeq(small, Tail(big))
         ELSE IsSubSeq(small, Tail(big))

\* C7: remove_older never removes a snapshot whose time stamp is the
\* cutoff or later.
SweepKeepsCutoffAndLater ==
    last_sweep.done =>
        \A i \in DOMAIN last_sweep.before :
            last_sweep.before[i].time >= Cutoff =>
                last_sweep.before[i] \in Range(db[Solo].snapshots)

\* C8: after remove_older no snapshot strictly earlier than the cutoff
\* remains, and what remains is in the order it had before.
SweepDropsOlderKeepsOrder ==
    last_sweep.done =>
        /\ \A i \in DOMAIN db[Solo].snapshots :
              ~(db[Solo].snapshots[i].time < Cutoff)
        /\ IsSubSeq(db[Solo].snapshots, last_sweep.before)

\* a sweep has dropped a snapshot from between two that it kept
SweptFromTheMiddle ==
    /\ last_sweep.done
    /\ Len(last_sweep.before) = 3
    /\ db[Solo].snapshots = <<last_sweep.before[1], last_sweep.before[3]>>
    /\ last_sweep.before[1] # last_sweep.before[3]

\* C9: a remove_older that follows a remove_older with the same days at
\* the same `now` leaves the snapshots as the first one left them.
SweepIdempotent ==
    last_sweep.again => db[Solo].snapshots = last_sweep.before

\* a sweep that dropped something has been applied a second time
SweptTwice ==
    /\ last_sweep.again
    /\ last_sweep.origin # last_sweep.before
    /\ last_sweep.before # <<>>

\* the store of the scenario: captures at T0, T0 + 1h, T0 + 2h (T0 = 0)
ScenarioTimes == <<0, UnitsPerHour, 2 * UnitsPerHour>>
\* T0 + 2h30m
ScenarioNow == 2 * UnitsPerHour + 1

ScenarioSweep ==
    /\ last_sweep.done
    /\ Times(last_sweep.before) = ScenarioTimes
    /\ last_sweep.days = 0
    /\ last_sweep.at = ScenarioNow

\* C10 as stated: remove_older(0) at T0 + 2h30m leaves the snapshots of
\* T0 + 1h and T0 + 2h.
ScenarioKeepsLastTwo ==
    ScenarioSweep => Times(db[Solo].snapshots) = SubSeq(ScenarioTimes, 2, 3)

\* C10 amended: remove_older(0) at T0 + 2h30m leaves no snapshot (all
\* three are earlier than cutoff = now), and a store emptied at that time
\* and persisted loads back as the empty sequence.
ScenarioDropsAll ==
    /\ ScenarioSweep => db[Solo].snapshots = <<>>
    /\ (JustPersisted(Solo) /\ now = ScenarioNow /\ db[Solo].snapshots = <<>>) =>
          /\ load_outcome(datafile) = "Ok"
          /\ load_value(datafile).snapshots = <<>>

(* ================================================================== *)
(* Properties of close_file and of the loads                          *)
(* ================================================================== *)
\* C14: from the call of from_file_with_write on an existing file, through
\* the appends and sweeps made in memory, to the return of close_file, no
\* step changes the contents of the data file; close_file returns Ok with
\* the sentinel removed.
DryRunLeavesFile ==
    /\ [][(op'[Solo] \in {"from_file_with_write", "close_file"} /\ path_exists) =>
            (datafile' = datafile /\ path_exists')]_vars
    /\ []((pc[Solo] = "idle" /\ op[Solo] = "close_file") =>
            (result[Solo] = "Ok" /\ ~lockfile))

\* close_file has returned with a store that holds snapshots the file,
\* which was there before, does not hold
ClosedWithoutPersisting ==
    /\ pc[Solo] = "idle"
    /\ op[Solo] = "close_file"
    /\ result[Solo] = "Ok"
    /\ ~lockfile
    /\ Len(db[Solo].snapshots) > 0
    /\ CanDecode(datafile)
    /\ deserialize(datafile).snapshots = <<>>

\* C15: load_database on a file of zero bytes, from from_file or from
\* from_file_with_write, succeeds with the default store: no snapshots and
\* the version of the running crate.
EmptyFileLoadsDefault ==
    [][(pc[Solo] = "load" /\ Len(datafile) = 0 /\ pc'[Solo] # "load") =>
          /\ pc'[Solo] = (IF op[Solo] = "from_file" THEN "unlock" ELSE "seek")
          /\ db'[Solo] = [version |-> CRATE_VERSION, snapshots |-> <<>>]]_vars

\* from_file has loaded an empty file that exists
LoadedEmptyFile ==
    /\ pc[Solo] = "unlock"
    /\ op[Solo] = "from_file"
    /\ path_exists
    /\ datafile = <<>>
    /\ db[Solo] = [version |-> CRATE_VERSION, snapshots |-> <<>>]

\* the version text stored in a file that decodes
StoredVersion == deserialize(datafile).version

\* C16: when the version decoded from the file is strictly greater, in
\* semver order, than the version of the running crate, the load succeeds
\* and returns the decoded snapshots under the version of the running crate.
NewerVersionLoadsAsCurrent ==
    [][(/\ pc[Solo] = "load"
        /\ pc'[Solo] # "load"
        /\ CanDecode(datafile)
        /\ VersionParses(StoredVersion)
        /\ SemVerGreater(SemVerOf[StoredVersion], SemVerOf[CRATE_VERSION])) =>
          /\ pc'[Solo] = (IF op[Solo] = "from_file" THEN "unlock" ELSE "seek")
          /\ db'[Solo] = [version |-> CRATE_VERSION,
                          snapshots |-> deserialize(datafile).snapshots]]_vars

\* C17: no step of from_file, and no step from the call of
\* from_file_with_write until the caller starts its persist, changes the
\* contents of a data file that exists, also when the load replaced the
\* version of the store in memory.
LoadLeavesFile ==
    [][(op'[Solo] \in {"from_file", "from_file_with_write"} /\ path_exists) =>
          (datafile' = datafile /\ path_exists')]_vars

\* from_file_with_write has returned a store under the running version from
\* a file that still carries the newer version
LoadedNewerLeftFile ==
    /\ pc[Solo] = "held"
    /\ op[Solo] = "from_file_with_write"
    /\ CanDecode(datafile)
    /\ StoredVersion = "0.3.0"
    /\ db[Solo].version = CRATE_VERSION

\* C18: load_database on a file that is not empty and does not decode
\* returns CborDeserialize to the caller of the load: the caller gets no
\* store (its Database value is the one it had) and the file keeps its
\* contents.
UndecodableFileFails ==
    [][(/\ pc[Solo] = "load"
        /\ pc'[Solo] # "load"
        /\ Len(datafile) > 0
        /\ ~CanDecode(datafile)) =>
          /\ pc'[Solo] = "idle"
          /\ result'[Solo] = "CborDeserialize"
          /\ db'[Solo] = db[Solo]
          /\ datafile' = datafile
          /\ path_exists']_vars

\* a load has failed on a file that is there, is not empty and does not
\* decode
FailedOnGarbage ==
    /\ pc[Solo] = "idle"
    /\ op[Solo] \in {"from_file", "from_file_with_write"}
    /\ result[Solo] = "CborDeserialize"
    /\ path_exists
    /\ Len(datafile) > 0
    /\ ~CanDecode(datafile)

\* C19: on a path without a data file, from_file fails with
\* FailedToOpenFile and the file is still not there, whereas
\* from_file_with_write creates the file empty and returns the default
\* store with the sentinel in place.
MissingFileReadFailsWriteCreates ==
    [][/\ (pc[Solo] = "lock_open" /\ ~path_exists /\ pc'[Solo] # "lock_open") =>
            IF op[Solo] = "from_file"
            THEN /\ pc'[Solo] = "idle"
                 /\ result'[Solo] = "FailedToOpenFile"
                 /\ ~path_exists'
                 /\ datafile' = datafile
            ELSE /\ pc'[Solo] \in {"load", "write"}
                 /\ path_exists'
                 /\ datafile' = <<>>
       /\ (/\ pc[Solo] = "seek"
           /\ pc'[Solo] # "seek"
           /\ datafile = <<>>) =>
            /\ pc'[Solo] = "held"
            /\ result'[Solo] = "Ok"
            /\ db'[Solo] = [version |-> CRATE_VERSION, snapshots |-> <<>>]
            /\ lockfile'
            /\ path_exists'
            /\ datafile' = <<>>]_vars

\* from_file has failed on a path that has no data file, and there is
\* still none
ReadOfMissingFileFailed ==
    /\ pc[Solo] = "idle"
    /\ op[Solo] = "from_file"
    /\ result[Solo] = "FailedToOpenFile"
    /\ ~path_exists

(* ================================================================== *)
(* Properties of remove_older at the limits of the calendar           *)
(* ================================================================== *)
\* Utc::now() minus that many days is a date a DateTime can hold
CutoffRepresentable(kilodays) ==
    /\ NowKiloDays - kilodays >= DATE_MIN_KILODAYS
    /\ NowKiloDays - kilodays <= DATE_MAX_KILODAYS

\* C20: whenever now minus the given number of days cannot be represented,
\* remove_older returns OldestDateOverflow to its caller and the snapshots
\* are what they were.
UnrepresentableCutoffFails ==
    [][\A kilodays \in FarDays :
          (remove_older_far(Solo, kilodays) /\ ~CutoffRepresentable(kilodays)) =>
              /\ pc'[Solo] = "held"
              /\ result'[Solo] = "OldestDateOverflow"
              /\ db' = db]_vars

(* ================================================================== *)
(* Properties of take_snapshot and of the collection                  *)
(* ================================================================== *)
\* C21: a successful take_snapshot makes the sequence one longer, the new
\* last element is the snapshot just collected, the elements that were
\* there keep their places, and neither the data file nor the sentinel
\* changes.
AppendAddsOneAtEnd ==
    [][take_snapshot(Solo) =>
          LET old == db[Solo].snapshots
              new == db'[Solo].snapshots
          IN  /\ Len(new) = Len(old) + 1
              /\ SubSeq(new, 1, Len(old)) = old
              /\ new[Len(new)] = SnapShot_new(HostReading, now)
              /\ db'[Solo].version = db[Solo].version
              /\ datafile' = datafile
              /\ path_exists' = path_exists
              /\ lockfile' = lockfile]_vars

\* two snapshots taken at different times are in memory, in the order they
\* were taken, while the file still holds a store without snapshots
AppendedInMemoryOnly ==
    /\ pc[Solo] = "held"
    /\ lockfile
    /\ Len(db[Solo].snapshots) = 2
    /\ db[Solo].snapshots[1].time < db[Solo].snapshots[2].time
    /\ CanDecode(datafile)
    /\ deserialize(datafile).snapshots = <<>>

\* C22: when a read of the collection fails, take_snapshot returns the
\* psutil error and the snapshots are what they were: nothing is pushed.
FailedCollectionPushesNothing ==
    [][\A host \in Hosts, networks_to_ignore \in IgnoreSets :
          /\ (/\ take_snapshot_host(Solo, host, networks_to_ignore)
              /\ FailedRead(host, Reads) # "none") =>
                (result'[Solo] = "Psutil" /\ db' = db)
          /\ (/\ take_snapshot_services(Solo, host, networks_to_ignore)
              /\ FailedRead(host, ReadsServices) # "none") =>
                (result'[Solo] = "Psutil" /\ db' = db)]_vars

\* a collection has failed on a store that holds snapshots
CollectionFailedOnFilledStore ==
    /\ pc[Solo] = "held"
    /\ result[Solo] = "Psutil"
    /\ Len(db[Solo].snapshots) > 0

\* the counters of the interfaces a snapshot holds
NetworksOf(snap) ==
    {snap.reading.networks[i] : i \in DOMAIN snap.reading.networks}

\* the new last snapshot holds one entry for each interface of the host
\* whose name is not ignored, and nothing else
KeepsExactlyNotIgnored(host, networks_to_ignore) ==
    LET new  == db'[Solo].snapshots[Len(db'[Solo].snapshots)]
        want == {k \in host.nics : k \notin networks_to_ignore}
    IN  /\ Len(db'[Solo].snapshots) = Len(db[Solo].snapshots) + 1
        /\ Len(new.reading.networks) = Cardinality(want)
        /\ NetworksOf(new) = {NetIoCounters(k) : k \in want}

\* C23: the networks of a collected snapshot are the counters of exactly
\* the interfaces whose name is not in networks_to_ignore, in lib/metrics
\* and in services/metrics alike.
NetworksAreTheNotIgnored ==
    [][\A host \in Hosts, networks_to_ignore \in IgnoreSets :
          /\ (/\ take_snapshot_host(Solo, host, networks_to_ignore)
              /\ FailedRead(host, Reads) = "none") =>
                KeepsExactlyNotIgnored(host, networks_to_ignore)
          /\ (/\ take_snapshot_services(Solo, host, networks_to_ignore)
              /\ FailedRead(host, ReadsServices) = "none") =>
                KeepsExactlyNotIgnored(host, networks_to_ignore)]_vars

\* C24: the snapshots of a store stay in the order of their appends over
\* loads, appends, sweeps and persists: a load yields the snapshots of the
\* file in the order they lie there, a persist lays them into the file in
\* the order they have in memory and leaves the memory alone, and every
\* other change of the sequence either adds one element at the end or
\* leaves elements out without moving the others.
AppendOrderKept ==
    [][LET old == db[Solo].snapshots
           new == db'[Solo].snapshots
       IN  /\ (/\ pc[Solo] = "load"
               /\ pc'[Solo] \in {"seek", "unlock"}
               /\ Len(datafile) > 0) =>
                 /\ Len(new) = datafile[3].array
                 /\ \A i \in DOMAIN new : new[i] = datafile[3 + i].snap
           /\ (pc[Solo] = "write" /\ pc'[Solo] = "unlock") =>
                 /\ new = old
                 /\ datafile'[cursor[Solo] + 3].array = Len(old)
                 /\ \A i \in DOMAIN old :
                       datafile'[cursor[Solo] + 3 + i].snap = old[i]
           /\ (pc[Solo] # "load" /\ new # old) =>
                 \/ /\ Len(new) = Len(old) + 1
                    /\ SubSeq(new, 1, Len(old)) = old
                 \/ /\ Len(new) < Len(old)
                    /\ IsSubSeq(new, old)]_vars

\* a load has returned two snapshots of different times that an earlier
\* persist wrote, the earlier one first
LoadedTwoInOrder ==
    /\ pc[Solo] = "seek"
    /\ Len(db[Solo].snapshots) = 2
    /\ db[Solo].snapshots[1].time < db[Solo].snapshots[2].time
    /\ deserialize(datafile).snapshots = db[Solo].snapshots

(* ================================================================== *)
(* Properties of the data file as a whole                             *)
(* ================================================================== *)
\* C25: no step of any operation, whatever its outcome, removes the data
\* file: once it exists it exists in every later state.
DataFileNeverDeleted ==
    [][path_exists => path_exists']_vars

\* the data file is there after an operation has removed the sentinel
\* next to it, and after another operation has failed on it
DataFileOutlivedUnlock ==
    /\ path_exists
    /\ ~lockfile
    /\ \E p, q \in Procs :
          /\ pc[p] = "idle" /\ result[p] = "Ok"
          /\ pc[q] = "idle" /\ result[q] = "FailedToWriteFile"

(* ================================================================== *)
(* Properties of the derived series                                   *)
(* ================================================================== *)
\* the store the series was computed from
Stored == db[Solo].snapshots

RECURSIVE Total(_)
Total(xs) == IF xs = <<>> THEN 0 ELSE Head(xs) + Total(Tail(xs))

\* the fraction x is num / den
IsQuotient(x, num, den) == x.d # 0 /\ x.n * den = num * x.d

\* C26: whichever series is asked for, it has one entry for each stored
\* snapshot, none for the empty store, and its i-th entry carries the time
\* stamp of the i-th snapshot.
OneEntryPerSnapshot ==
    series.name # "none" =>
        /\ Len(series.values) = Len(Stored)
        /\ \A i \in DOMAIN Stored : series.values[i].time = Stored[i].time

\* a series over a store whose snapshots are not in the order of their
\* time stamps
SeriesOfUnorderedStore ==
    /\ series.name = "get_ram_usage"
    /\ Len(Stored) = 2
    /\ Stored[1].time > Stored[2].time
    /\ series.values[1].time > series.values[2].time

BusySum(snap) ==
    Total([i \in DOMAIN snap.reading.cpus |-> snap.reading.cpus[i].busy])

TotalSum(snap) ==
    Total([i \in DOMAIN snap.reading.cpus |-> snap.reading.cpus[i].total])

\* C27: the CPU usage of a snapshot is the sum of the busy times of its
\* cores over the sum of their total times, times 100; 2 s busy of 8 s
\* give 25.
CpuUsageIsBusyOverTotal ==
    series.name = "get_cpu_usage" =>
        \A i \in DOMAIN Stored :
            /\ IsQuotient(series.values[i].value[1],
                          100 * BusySum(Stored[i]), TotalSum(Stored[i]))
            /\ (BusySum(Stored[i]) = 2 /\ TotalSum(Stored[i]) = 8) =>
                  series.values[i].value = <<[n |-> 25, d |-> 1]>>

CpuUsageOfTwoInEight ==
    /\ series.name = "get_cpu_usage"
    /\ Len(Stored) > 0
    /\ BusySum(Stored[1]) = 2
    /\ TotalSum(Stored[1]) = 8
    /\ series.values[1].value = <<[n |-> 25, d |-> 1]>>

\* C28: each load value of a snapshot is the raw load average over the
\* number of cores stored in that snapshot, times 100; loads 1, 2, 4 on 4
\* cores give 25, 50, 100.
LoadIsRawOverCores ==
    series.name = "get_load" =>
        \A i \in DOMAIN Stored :
            LET l == Stored[i].reading.load_avgs
                c == Len(Stored[i].reading.cpus)
                v == series.values[i].value
            IN  /\ IsQuotient(v[1], 100 * l.one, c)
                /\ IsQuotient(v[2], 100 * l.five, c)
                /\ IsQuotient(v[3], 100 * l.fifteen, c)
                /\ (l = [one |-> 1, five |-> 2, fifteen |-> 4] /\ c = 4) =>
                      v = <<[n |-> 25, d |-> 1], [n |-> 50, d |-> 1],
                            [n |-> 100, d |-> 1]>>

LoadOfFourCores ==
    /\ series.name = "get_load"
    /\ Len(Stored) > 0
    /\ Stored[1].reading.load_avgs = [one |-> 1, five |-> 2, fifteen |-> 4]
    /\ Len(Stored[1].reading.cpus) = 4
    /\ series.values[1].value =
          <<[n |-> 25, d |-> 1], [n |-> 50, d |-> 1], [n |-> 100, d |-> 1]>>

RecvSum(snap) ==
    Total([i \in DOMAIN snap.reading.networks |->
              snap.reading.networks[i].bytes_recv])

SentSum(snap) ==
    Total([i \in DOMAIN snap.reading.networks |->
              snap.reading.networks[i].bytes_sent])

\* C29: the received value of a snapshot is the sum of bytes_recv over its
\* stored interfaces divided by 1024 * 1024, the sent value likewise;
\* 1048576 and 2097152 bytes received give 3.
NetworkIsSumInMiB ==
    series.name = "get_network" =>
        \A i \in DOMAIN Stored :
            LET v == series.values[i].value
            IN  /\ IsQuotient(v[1], RecvSum(Stored[i]), 1024 * 1024)
                /\ IsQuotient(v[2], SentSum(Stored[i]), 1024 * 1024)
                /\ (/\ Len(Stored[i].reading.networks) = 2
                    /\ Stored[i].reading.networks[1].bytes_recv = 1048576
                    /\ Stored[i].reading.networks[2].bytes_recv = 2097152) =>
                      v[1] = [n |-> 3, d |-> 1]

NetworkOfThreeMiB ==
    /\ series.name = "get_network"
    /\ Len(Stored) > 0
    /\ Len(Stored[1].reading.networks) = 2
    /\ Stored[1].reading.networks[1].bytes_recv = 1048576
    /\ Stored[1].reading.networks[2].bytes_recv = 2097152
    /\ series.values[1].value[1] = [n |-> 3, d |-> 1]

PercentSum(snap) ==
    Total([i \in DOMAIN snap.reading.disks_memory |->
              snap.reading.disks_memory[i].percent])

\* C30: the disk capacity value of a snapshot is the sum of the
\* used-percent values of its partitions as it stands; 40 and 60 give 100.
DiskCapacityIsPlainSum ==
    series.name = "get_disk_memory_usage" =>
        \A i \in DOMAIN Stored :
            series.values[i].value = <<[n |-> PercentSum(Stored[i]), d |-> 1]>>

(* ================================================================== *)
(* Properties of sysmet-http                                          *)
(* ================================================================== *)
\* C31: while no swap is under way the cached data are those of the last
\* finished swap, which are the default or the value a from_file of the
\* task returned with Ok, stamped with the time of the swap; the cache is
\* changed only by the task, under the write guard, after its from_file
\* returned Ok, so a from_file that fails leaves it alone; and what a
\* handler clones are the data of the last finished swap
CacheIsLastSuccessfulReload ==
    [][/\ ~rwlock.writer => chart_data = settled
       /\ ~rwlock'.writer => chart_data' = settled'
       /\ chart_data' # chart_data =>
              /\ rwlock.writer
              /\ task \in {"metrics", "last_updated_time"}
              /\ op[Solo] = "from_file" /\ result[Solo] = "Ok"
       /\ settled' # settled =>
              settled' = [metrics |-> db[Solo], last_updated_time |-> now]
       /\ (task = "from_file" /\ task' = "select") =>
              /\ result[Solo] # "Ok"
              /\ chart_data' = chart_data
       /\ \A h \in Handlers :
              (home[h].at = "clone" /\ home'[h].at = "render") =>
                  home'[h].seen = settled.metrics]_vars

\* a reload has timed out on the lock after an earlier one had filled the
\* cache, and the cache still holds what the earlier one loaded
ReloadFailedOnFilledCache ==
    /\ task = "select"
    /\ result[Solo] = "LockFileTimeout"
    /\ Len(chart_data.metrics.snapshots) = 1
    /\ chart_data.last_updated_time < now

\* C32: a step of a request handler leaves the sentinel, the data file and
\* the cached data as they are, starts no operation of the store and never
\* takes the write side of the lock
HandlersOnlyRead ==
    [][\A h \in Handlers :
          home'[h] # home[h] =>
              /\ UNCHANGED <<lockfile, path_exists, datafile, chart_data>>
              /\ UNCHANGED <<pc, op, cursor, db>>
              /\ rwlock'.writer = rwlock.writer]_vars

\* both handlers hold a read guard at once, while the task is inside its
\* from_file
HandlersReadTogether ==
    /\ rwlock.readers = Handlers
    /\ pc[Solo] = "load"

\* C39: the task returns only after the stop request was sent to it, the
\* stop request is sent to the server only after the task has returned,
\* the server stops only on that request, and once the task has taken the
\* stop request it starts no from_file and changes no cached data
ShutdownInOrder ==
    [][/\ task = "finished" => db_rx = "received"
       /\ db_rx # "empty" => ctrl_c # "waiting"
       /\ server_rx' # "empty" => task' = "finished"
       /\ server' = "stopped" => server_rx' = "received"
       /\ task = "finished" =>
              /\ task' = "finished"
              /\ pc'[Solo] = "idle"
              /\ chart_data' = chart_data]_vars

\* the server has shut down after the task had swapped in a reload made at
\* its second tick
StoppedAfterSecondReload ==
    /\ server = "stopped"
    /\ settled.last_updated_time = 1

(* ================================================================== *)
(* Properties of sysmet-update                                        *)
(* ================================================================== *)
\* how far the run has come: each step of the acquisition, the load and
\* the persist has a place of its own
UpdatePhase ==
    CASE run.at = "exited"                          -> 10
      [] run.at # "exited" /\ op[Solo] = "none"     -> 0
      [] run.at # "exited" /\ op[Solo] # "none" ->
            CASE pc[Solo] = "lock_poll"   -> 1
              [] pc[Solo] = "lock_create" -> 2
              [] pc[Solo] = "lock_open"   -> 3
              [] pc[Solo] = "load"        -> 4
              [] pc[Solo] = "seek"        -> 5
              [] pc[Solo] = "held"        -> 6
              [] pc[Solo] = "write"       -> 7
              [] pc[Solo] = "unlock"      -> 8
              [] pc[Solo] = "idle"        -> 9

\* the number of snapshots --times asks for
TimesAsked == IF run.times = <<>> THEN 1 ELSE run.times[1]

\* C33: a run never comes back to a step it has left, so it creates the
\* sentinel, loads the file and writes it at most once each, and only
\* through from_file_with_write and write_and_close_file; every snapshot
\* it appends goes to the end of the sequence and is counted; when the
\* write begins the run has appended as many snapshots as --times asks
\* for, or one without --times
OneCyclePerRun ==
    [][/\ UpdatePhase' >= UpdatePhase
       /\ pc'[Solo] \in {"lock_poll", "lock_create", "lock_open", "load", "seek"}
              => op'[Solo] = "from_file_with_write"
       /\ pc'[Solo] = "write" => op'[Solo] = "write_and_close_file"
       /\ db'[Solo].snapshots # db[Solo].snapshots =>
              \/ pc[Solo] = "load"
              \/ run.at = "remove_older" /\ run'.appended = run.appended
              \/ /\ run.at = "take_snapshot"
                 /\ run'.appended = run.appended + 1
                 /\ Len(db'[Solo].snapshots) = Len(db[Solo].snapshots) + 1
                 /\ SubSeq(db'[Solo].snapshots, 1, Len(db[Solo].snapshots))
                        = db[Solo].snapshots
       /\ run'.appended # run.appended =>
              Len(db'[Solo].snapshots) = Len(db[Solo].snapshots) + 1
       /\ (pc[Solo] = "held" /\ pc'[Solo] = "write") =>
              /\ ~run.dry_run
              /\ run.appended = TimesAsked]_vars

\* a run with --times 2 has persisted and returned Ok: the file holds the
\* two snapshots it appended
PersistedTwoAppends ==
    /\ run.at = "exited"
    /\ run.outcome = "Ok"
    /\ run.times = <<2>>
    /\ run.appended = 2
    /\ CanDecode(datafile)
    /\ Len(deserialize(datafile).snapshots) = 2

\* C35: once a run that has created the sentinel has ended, by the Ok of
\* its persist or of its dry run, by the Err of a collection or by the Err
\* of the sweep, the sentinel is gone
ExitedRunLeftNoSentinel ==
    (/\ run.at = "exited"
     /\ run.outcome \in {"Ok", "Psutil", "OldestDateOverflow"}) => ~lockfile

(* ================================================================== *)
(* Properties of a persist that times out                             *)
(* ================================================================== *)
\* C36: the step by which an operation returns LockFileTimeout is a turn of
\* the polling loop that finds the sentinel and leaves it, and the data
\* file, as they are; and so does every step of write_to_file up to there:
\* its call and the turns of its polling loop
TimedOutWriteTouchesNothing ==
    [][\A p \in Procs :
          /\ (result'[p] = "LockFileTimeout" /\ result[p] # "LockFileTimeout") =>
                 /\ pc[p] = "lock_poll"
                 /\ lockfile /\ lockfile'
                 /\ UNCHANGED <<path_exists, datafile>>
          /\ (/\ op'[p] = "write_to_file"
              /\ pc'[p] = "lock_poll"
              /\ (pc'[p] # pc[p] \/ elapsed'[p] # elapsed[p])) =>
                 UNCHANGED <<lockfile, path_exists, datafile>>]_vars

\* a write_to_file has timed out while the other process was between its
\* from_file_with_write and its persist, on a file that holds a store
WriteTimedOutOnHeldFile ==
    \E p \in Procs, q \in Procs :
        /\ p # q
        /\ op[p] = "write_to_file"
        /\ result[p] = "LockFileTimeout"
        /\ pc[q] = "held"
        /\ lockfile
        /\ CanDecode(datafile)

(* ================================================================== *)
(* Properties of sysmet-notify                                        *)
(* ================================================================== *)
\* C34: no step of a run of sysmet-notify creates or deletes the sentinel,
\* reads the data file into a store or writes it: the sentinel, the path,
\* the data file and every handle on the store stay as they are
NotifyLeavesStoreAlone ==
    [][UNCHANGED <<lockfile, path_exists, datafile, pc, op, cursor, db,
                   result>>]_vars

\* a run has compared a reading it collected itself with its thresholds and
\* has sent a mail, beside a data file that holds nothing
NotifySentBesideEmptyStore ==
    /\ alert.at = "exited"
    /\ alert.outcome = "sent"
    /\ alert.crossed # {}
    /\ datafile = <<>>
    /\ ~lockfile

\* the mathematical comparison of the cooldown: the date in the last-sent
\* file plus the cooldown is strictly before t
CooledDown(content, cooldown, t) ==
    /\ cooldown.kilodays = 0
    /\ content[1].date + cooldown.units < t

\* C37: a run that is not a dry run and has passed the cooldown check, while
\* the last-sent file holds a date, started strictly later than that date
\* plus its cooldown; and a run that sends a mail started more than its
\* cooldown after every run that sent one before
CooldownSeparatesMails ==
    /\ [](/\ alert.at \in {"collect", "compare", "send"}
          /\ ~alert.dry_run
          /\ parses_as_date(last_sent)
          => CooledDown(last_sent, alert.cooldown, alert.start))
    /\ [][mails' # mails =>
             \A i \in DOMAIN mails :
                 /\ alert.cooldown.kilodays = 0
                 /\ alert.start - mails[i] > alert.cooldown.units]_vars

\* the configured thresholds that the reading of the run strictly exceeds
StrictlyExceeded ==
    {m \in Metrics : /\ alert.thresholds[m] # <<>>
                     /\ alert.snapshot[m] > alert.thresholds[m][1]}

====
